---- MODULE Spec2Model ----
(***************************************************************************)
(* A model of the ag-usage extension: the polling orchestrator             *)
(* (refresh / executeRefresh / startAutoRefresh), the port validator       *)
(* (findValidPort), the credential extractor (extractCsrfToken) and the    *)
(* quota aggregation of fetchStats.                                        *)
(*                                                                         *)
(* JavaScript runs one callback at a time: an action of this model is one  *)
(* macrotask (a timer, a command, an I/O completion) together with the     *)
(* microtasks it triggers, i.e. the code between two await points that     *)
(* wait for I/O or for a timer.                                            *)
(***************************************************************************)
EXTENDS Integers, Sequences, FiniteSets, TLC

VARIABLES
  \* ---- ExtensionState (platform.ts 319-401) and the module-level timers
  isActive,            \* state.isActive
  cachedConnection,    \* state.cachedConnection
  hasStats,            \* state.lastStatsData !== null
  refreshPromise,      \* state.refreshPromise: 0 (null) or the slot of the execution
  lastRefreshSucceeded,\* state.lastRefreshSucceeded
  consecutiveFailures, \* state.consecutiveFailures
  statusText,          \* state.statusBarItem.text, by kind
  refreshTimer,        \* delay of the pending timer held in state.refreshTimer, 0: none
  initialTimer,        \* state.initialRefreshTimeout is pending
  orphanTimers,        \* pending runLoop timers whose handle is no longer held
  refreshInterval,     \* the configured ag-usage.refreshInterval, seconds
  now,                 \* Date.now()
  stateDefined,        \* the module variable `state` is not undefined
  deactivateAwaits,    \* the execution deactivate() awaits or awaited, 0 if none
  execs,               \* the executeRefresh invocations, by slot
  \* ---- history of the orchestrator, for the properties only
  loopStreak,          \* failed refreshes awaited by the polling loop since the last success
  lastSettled,         \* what the last finished refresh looked like
  \* ---- findValidPort (history.ts 737-781)
  fvp,
  \* ---- extractCsrfToken (history.ts 673-686)
  cmdLine,             \* the argument cmd
  csrfResult,          \* what the call returned
  csrfPc,              \* "idle", "called", "returned"
  \* ---- fetchStats aggregation (history.ts 885-923)
  models,              \* clientModelConfigs of the response
  groups,              \* the groups of the snapshot returned
  aggPc,               \* "idle", "called", "returned"
  \* ---- makeRequest (history.ts 783-876)
  req,                 \* one call: its promise, its request, its abort listener
  \* ---- getPorts (platform.ts 60-85, 172-204)
  portQuery,           \* one call: the utilities run so far and their errors
  \* ---- findAntigravityProcess (history.ts 695-708)
  selection,           \* one call: the candidate list and the process chosen
  \* ---- session usage of one category (platform.ts 459-477, 594-681)
  session,             \* the tracker, the last statistics, the window focus
  \* ---- createErrorTooltip (formatter.ts 170-187)
  display,             \* one call: the error and the tooltip returned
  \* ---- checkQuotaNotifications (platform.ts 555-592)
  notifications,       \* the two settings, the notified sets, the messages shown
  \* ---- QuotaHistory (history.ts 14-111)
  history              \* one QuotaHistory, its two settings, the last call

orchVars == <<stateDefined, deactivateAwaits, isActive, cachedConnection, hasStats, refreshPromise, lastRefreshSucceeded,
              consecutiveFailures, statusText, refreshTimer, initialTimer, orphanTimers,
              refreshInterval, now, execs, loopStreak, lastSettled, stateDefined>>
portVars == <<fvp>>
csrfVars == <<cmdLine, csrfResult, csrfPc>>
aggVars  == <<models, groups, aggPc>>
viewVars == <<display, notifications, history>>
exceptDisplay == <<notifications, history>>
exceptNotifications == <<display, history>>
exceptHistory == <<display, notifications>>
unitVars == <<req, portQuery, selection, session, viewVars>>
exceptReq == <<portQuery, selection, session, viewVars>>
exceptPortQuery == <<req, selection, session, viewVars>>
exceptSelection == <<req, portQuery, session, viewVars>>
exceptSession == <<req, portQuery, selection, viewVars>>
coreUnits == <<req, portQuery, selection, session>>
vars == <<orchVars, portVars, csrfVars, aggVars, unitVars>>

(***************************************************************************)
(* Program constants (constants.ts)                                        *)
(***************************************************************************)
CACHE_TTL_MS == 300000
FAILED_REFRESH_DELAY_MS == 5000
MAX_FAILED_REFRESH_DELAY_MS == 60000
MAX_PORT_VALIDATION_ATTEMPTS == 2
DEFAULT_REFRESH_INTERVAL == 60
MS_PER_SECOND == 1000
MIN_REFRESH_INTERVAL == 10

(***************************************************************************)
(* Bounds of the model                                                     *)
(***************************************************************************)
MaxTicks == 1        \* the clock advances at most this many TTL-long steps
MaxFailures == 2     \* no further failure is injected once the counter is here
MaxChains == 2       \* runLoop chains alive at once
MaxJoiners == 1      \* callers joined to one in-flight refresh
MaxExecs == 2        \* slots for concurrently running executeRefresh invocations
MaxArgs == 4         \* fragments a command line is made of
MaxModels == 2       \* entries of a raw model list
MaxEvents == 3       \* events the request and its response emit during one call
MaxCandidates == 3   \* processes in the list getProcesses returns
FullQuota == 2       \* the full quota of a category, in units of consumption
MaxRefills == 1      \* quota resets during a session
MaxWords == 3        \* words of a label
MaxLines == 2        \* lines of the output of a utility
MaxSnapshots == 2    \* calls of recordSnapshot on one QuotaHistory

TimeStep == CACHE_TTL_MS
Slots == 1..MaxExecs

(***************************************************************************)
(* extractCsrfToken (history.ts 673-686).  A command line is a sequence of *)
(* symbols: "flag" is the literal --csrf_token (the regexes match it only  *)
(* as a whole, in any case), "eq" is '=', "sp" a whitespace character,     *)
(* "dq" and "sq" the two quotes, "w" a character of [\w-], "x" any other.  *)
(***************************************************************************)
Symbols == {"flag", "eq", "sp", "dq", "sq", "w", "x"}
Pending == <<"pending">>
SepChars == {"eq", "sp"}          \* [=\s]
WordChars == {"w"}                \* [\w-]
Undefined == <<"undefined">>
NoMatch == <<"nomatch">>

RECURSIVE RunEnd(_, _, _)
\* The first position >= i of s whose symbol is not in S (Len(s)+1 if none):
\* where a greedy run S* starting at i stops.
RunEnd(s, i, S) ==
  IF i > Len(s) \/ s[i] \notin S THEN i ELSE RunEnd(s, i + 1, S)

\* /--csrf_token[=\s]+Q([^Q]+)Q/ tried at position i: the captured group or NoMatch.
MatchQuotedAt(s, i, q) ==
  IF i > Len(s) \/ s[i] # "flag" THEN NoMatch
  ELSE LET j == RunEnd(s, i + 1, SepChars)
           k == RunEnd(s, j + 1, Symbols \ {q})
       IN IF j > i + 1 /\ j <= Len(s) /\ s[j] = q /\ k > j + 1 /\ k <= Len(s)
          THEN SubSeq(s, j + 1, k - 1)
          ELSE NoMatch

\* /--csrf_token[=\s]+([\w-]+)/ tried at position i.
MatchBareAt(s, i) ==
  IF i > Len(s) \/ s[i] # "flag" THEN NoMatch
  ELSE LET j == RunEnd(s, i + 1, SepChars)
           k == RunEnd(s, j, WordChars)
       IN IF j > i + 1 /\ k > j THEN SubSeq(s, j, k - 1) ELSE NoMatch

MatchAt(s, i, pattern) ==
  CASE pattern = 1 -> MatchQuotedAt(s, i, "dq")
    [] pattern = 2 -> MatchQuotedAt(s, i, "sq")
    [] OTHER       -> MatchBareAt(s, i)

RECURSIVE MatchFrom(_, _, _)
\* String.prototype.match with an unanchored regex: the leftmost match.
MatchFrom(s, i, pattern) ==
  IF i > Len(s) THEN NoMatch
  ELSE IF MatchAt(s, i, pattern) # NoMatch THEN MatchAt(s, i, pattern)
  ELSE MatchFrom(s, i + 1, pattern)

RECURSIVE Trim(_)
\* String.prototype.trim
Trim(s) ==
  IF s = <<>> THEN s
  ELSE IF Head(s) = "sp" THEN Trim(Tail(s))
  ELSE IF s[Len(s)] = "sp" THEN Trim(SubSeq(s, 1, Len(s) - 1))
  ELSE s

\* (mutation of PatternOrder: the bare pattern is tried first)
PatternOrderBareFirst == <<3, 1, 2>>

\* 674-678: the patterns in the order they are tried
PatternOrder == <<1, 2, 3>>

RECURSIVE TryPatterns(_, _)
TryPatterns(s, n) ==
  IF n > Len(PatternOrder) THEN Undefined
  ELSE LET m == MatchFrom(s, 1, PatternOrder[n])
       IN IF m # NoMatch /\ m # <<>> THEN Trim(m) ELSE TryPatterns(s, n + 1)

ExtractCsrfToken(cmd) == TryPatterns(cmd, 1)

(***************************************************************************)
(* The orchestrator's data                                                 *)
(***************************************************************************)
NullConnection == [isNull |-> TRUE, port |-> 0, csrfToken |-> Undefined, timestamp |-> 0]
Connection(p, t, ts) == [isNull |-> FALSE, port |-> p, csrfToken |-> t, timestamp |-> ts]

\* What the platform's process query can report as the command line found.
ProcessCmdLines == { <<"x", "sp", "flag", "eq", "w", "w">>, <<"x", "sp", "w">> }
\* The listening ports the platform's port query can report.
PortPool == {8080}

FullPathSteps == <<"process", "token", "ports", "validate", "cache", "stats">>

IdleExec ==
  [pc |-> "idle", show |-> FALSE, minDelayDone |-> FALSE, fetchDone |-> FALSE,
   csrfToken |-> Undefined, ports |-> {}, loops |-> 0, joiners |-> 0,
   steps |-> <<>>, staleAtStart |-> FALSE, cacheAtFullPath |-> NullConnection,
   usedConn |-> NullConnection, issuedAt |-> 0, joinShown |-> FALSE]

NothingSettled ==
  [outcome |-> "none", steps |-> <<>>, staleAtStart |-> FALSE, loops |-> 0, joiners |-> 0,
   cacheKept |-> TRUE, cacheValidated |-> FALSE]

Running(s) == execs[s].pc # "idle"
RunningSlots == {s \in Slots : Running(s)}
FreeSlots == {s \in Slots : ~Running(s)}
MinOf(S) == CHOOSE x \in S : \A y \in S : x <= y
MaxOf(S) == CHOOSE x \in S : \A y \in S : x >= y

RECURSIVE Pow2(_)
Pow2(n) == IF n <= 0 THEN 1 ELSE 2 * Pow2(n - 1)

\* platform.ts 521-524: the delay after the k-th consecutive failure.
BackoffDelay(k) ==
  MinOf({FAILED_REFRESH_DELAY_MS * Pow2(k - 1), MAX_FAILED_REFRESH_DELAY_MS})

\* platform.ts 513, 518: the delay after a success.
IntervalDelay(seconds) == MaxOf({MIN_REFRESH_INTERVAL, seconds}) * MS_PER_SECOND

\* (mutation of IsCacheValid: an age of exactly the TTL still counts as fresh)
IsCacheValidInclusive(cache, t) == ~cache.isNull /\ (t - cache.timestamp) <= CACHE_TTL_MS

\* platform.ts 534-536
IsCacheValid(cache, t) == ~cache.isNull /\ (t - cache.timestamp) < CACHE_TTL_MS

\* platform.ts 688, 713: the in-progress text
ProgressText(show) ==
  IF show THEN (IF cachedConnection.isNull THEN "connecting" ELSE "refreshing") ELSE statusText

(***************************************************************************)
(* refresh(showRefreshing) up to its first await (platform.ts 683-779).    *)
(* `loop` tells a call made by runLoop from any other caller: runLoop      *)
(* continues after the await with the scheduling of 510-528.               *)
(***************************************************************************)
\* (mutation of MustJoin: refresh never joins the execution in flight)
MustJoinNever == FALSE

\* 686: is there an execution to join?
MustJoin == refreshPromise # 0

\* executeRefresh up to its first await (710-742), in slot s.
StartedExec(show, loop) ==
  LET fresh == IsCacheValid(cachedConnection, now)
  IN [IdleExec EXCEPT
        !.pc = IF fresh THEN "cachedFetch" ELSE "findProcess",
        !.show = show,
        !.minDelayDone = ~show,
        !.loops = IF loop THEN 1 ELSE 0,
        !.steps = IF fresh THEN <<"cached">> ELSE <<"process">>,
        !.staleAtStart = /\ ~cachedConnection.isNull
                         /\ now - cachedConnection.timestamp >= CACHE_TTL_MS,
        !.cacheAtFullPath = cachedConnection,
        !.usedConn = IF fresh THEN cachedConnection ELSE NullConnection,
        !.issuedAt = IF fresh THEN now ELSE 0]

\* 686-692: a caller joins the execution in flight.  joinShown: a call with
\* showRefreshing has joined and MIN_DISPLAY_DELAY_MS has not passed since.
Joined(e, show, loop) ==
  LET j == IF loop THEN [e EXCEPT !.loops = @ + 1] ELSE [e EXCEPT !.joiners = @ + 1]
  IN IF show THEN [j EXCEPT !.joinShown = TRUE] ELSE j

Refresh(show, loop) ==
  IF ~stateDefined \/ ~isActive
  THEN UNCHANGED <<execs, refreshPromise, statusText, lastSettled>>
  ELSE IF MustJoin
  THEN /\ statusText' = ProgressText(show)
       /\ execs' = IF Running(refreshPromise)
                   THEN [execs EXCEPT ![refreshPromise] = Joined(@, show, loop)]
                   ELSE execs
       /\ UNCHANGED <<refreshPromise, lastSettled>>
  ELSE /\ FreeSlots # {}
       /\ LET s == MinOf(FreeSlots)
          IN /\ execs' = [execs EXCEPT ![s] = StartedExec(show, loop)]
             /\ refreshPromise' = s
             /\ lastSettled' = NothingSettled
       /\ statusText' = ProgressText(show)

\* Chains of runLoop that are awaiting a refresh.
AwaitingChains == LET RECURSIVE Sum(_)
                      Sum(S) == IF S = {} THEN 0
                                ELSE LET x == CHOOSE y \in S : TRUE
                                     IN execs[x].loops + Sum(S \ {x})
                  IN Sum(Slots)
PendingChains == (IF refreshTimer # 0 THEN 1 ELSE 0) + orphanTimers + (IF initialTimer THEN 1 ELSE 0)
JoinRoom == \A s \in Slots : execs[s].joiners < MaxJoiners

(***************************************************************************)
(* The end of an execution: refresh's finally (781-785), the return of     *)
(* every caller awaiting it, and, for each runLoop chain among them, the   *)
(* scheduling of the next iteration (platform.ts 510-528).                 *)
(***************************************************************************)
\* consecutiveFailures after n chains have each run 516-525.
CountedFailures(n, succeeded) == IF succeeded THEN 0 ELSE consecutiveFailures + n

\* The delay of the timer the last of n chains leaves in state.refreshTimer.
ScheduledDelay(n, succeeded) ==
  IF succeeded THEN IntervalDelay(refreshInterval)
  ELSE BackoffDelay(CountedFailures(n, succeeded))

RunLoopTail(n, succeeded) ==
  IF stateDefined' /\ isActive /\ n > 0
  THEN /\ consecutiveFailures' = CountedFailures(n, succeeded)
       /\ refreshTimer' = ScheduledDelay(n, succeeded)
       /\ orphanTimers' = orphanTimers + (n - 1) + (IF refreshTimer # 0 THEN 1 ELSE 0)
  ELSE UNCHANGED <<consecutiveFailures, refreshTimer, orphanTimers>>

\* deactivate resumes (492-493) after refresh's finally and before any
\* runLoop chain does: it awaits the execution itself, they await refresh.
DeactivateResumes(s) == stateDefined' = (stateDefined /\ deactivateAwaits # s)

\* (mutation of Settle: refresh has no finally and the marker stays set)
SettleKeepingMarker(s, e, outcome) ==
  /\ execs' = [execs EXCEPT ![s] = IdleExec]
  /\ UNCHANGED refreshPromise
  /\ DeactivateResumes(s)
  /\ RunLoopTail(e.loops, lastRefreshSucceeded')
  /\ loopStreak' = IF ~stateDefined' \/ ~isActive \/ outcome = "aborted" THEN loopStreak
                   ELSE IF outcome = "success" THEN 0
                   ELSE IF e.loops > 0 THEN loopStreak + 1 ELSE loopStreak
  /\ lastSettled' = [outcome |-> outcome, steps |-> e.steps, staleAtStart |-> e.staleAtStart,
                     loops |-> e.loops, joiners |-> e.joiners,
                     cacheKept |-> (cachedConnection' = e.cacheAtFullPath),
                     cacheValidated |-> (~e.usedConn.isNull /\ cachedConnection' = e.usedConn)]

Settle(s, e, outcome) ==
  /\ execs' = [execs EXCEPT ![s] = IdleExec]
  /\ refreshPromise' = 0
  /\ DeactivateResumes(s)
  /\ RunLoopTail(e.loops, lastRefreshSucceeded')
  /\ loopStreak' = IF ~stateDefined' \/ ~isActive \/ outcome = "aborted" THEN loopStreak
                   ELSE IF outcome = "success" THEN 0
                   ELSE IF e.loops > 0 THEN loopStreak + 1 ELSE loopStreak
  /\ lastSettled' = [outcome |-> outcome, steps |-> e.steps, staleAtStart |-> e.staleAtStart,
                     loops |-> e.loops, joiners |-> e.joiners,
                     cacheKept |-> (cachedConnection' = e.cacheAtFullPath),
                     cacheValidated |-> (~e.usedConn.isNull /\ cachedConnection' = e.usedConn)]

Others == <<portVars, csrfVars, aggVars, unitVars>>

\* An early return of executeRefresh because the state was disposed (722-765).
Abort(s, e) ==
  /\ UNCHANGED <<cachedConnection, hasStats, lastRefreshSucceeded, statusText>>
  /\ Settle(s, e, "aborted")

\* (mutation of ApplyStatsUpdate: a success over the cached connection
\* renews its timestamp)
ApplyStatsUpdateRenewing(s, e) ==
  /\ hasStats' = TRUE
  /\ lastRefreshSucceeded' = TRUE
  /\ statusText' = "stats"
  /\ cachedConnection' = IF e.pc = "cachedFetch" /\ ~cachedConnection.isNull
                         THEN [cachedConnection EXCEPT !.timestamp = now]
                         ELSE cachedConnection
  /\ Settle(s, e, "success")

\* applyStatsUpdate (696-708) and the end of executeRefresh.
ApplyStatsUpdate(s, e) ==
  /\ hasStats' = TRUE
  /\ lastRefreshSucceeded' = TRUE
  /\ statusText' = "stats"
  /\ UNCHANGED cachedConnection
  /\ Settle(s, e, "success")

\* The end of the catch block (771-774), after `await minDelay`.
ShowError(s, e) ==
  /\ statusText' = "error"
  /\ UNCHANGED <<cachedConnection, hasStats>>
  /\ Settle(s, e, "failure")

\* The catch block of executeRefresh (767-775).
Catch(s, e) ==
  IF ~isActive THEN Abort(s, e)
  ELSE /\ lastRefreshSucceeded' = FALSE
       /\ IF e.minDelayDone
          THEN ShowError(s, e)
          ELSE /\ execs' = [execs EXCEPT ![s] = [e EXCEPT !.pc = "failDelay"]]
               /\ UNCHANGED <<cachedConnection, hasStats, statusText, refreshPromise,
                              consecutiveFailures, refreshTimer, orphanTimers,
                              loopStreak, lastSettled, stateDefined>>

\* Promise.all([fetchStats, minDelay]) has resolved (731-734, 764-766).
StatsResolved(s, e) == IF ~isActive THEN Abort(s, e) ELSE ApplyStatsUpdate(s, e)

Frame == UNCHANGED <<deactivateAwaits, isActive, initialTimer, refreshInterval, now, Others>>
MayFail == consecutiveFailures < MaxFailures

(***************************************************************************)
(* The completions executeRefresh awaits                                   *)
(***************************************************************************)
\* fetchStats resolves (731 or 764).
StatsResponse(s) ==
  /\ execs[s].pc \in {"cachedFetch", "fetchStats"}
  /\ ~execs[s].fetchDone
  /\ IF execs[s].minDelayDone
     THEN StatsResolved(s, execs[s])
     ELSE /\ execs' = [execs EXCEPT ![s].fetchDone = TRUE]
          /\ UNCHANGED <<cachedConnection, hasStats, lastRefreshSucceeded, statusText,
                         refreshPromise, consecutiveFailures, refreshTimer, orphanTimers,
                         loopStreak, lastSettled, stateDefined>>
  /\ Frame

\* (mutation of CachedStatsFails: the failure is not caught at 735 and ends
\* the refresh)
CachedStatsFailsNoRetry(s) ==
  /\ execs[s].pc = "cachedFetch"
  /\ ~execs[s].fetchDone
  /\ MayFail
  /\ Catch(s, execs[s])
  /\ Frame

\* fetchStats over the cached connection rejects (735-742): the cache is
\* cleared and the process query is issued.
CachedStatsFails(s) ==
  /\ execs[s].pc = "cachedFetch"
  /\ ~execs[s].fetchDone
  /\ MayFail
  /\ cachedConnection' = NullConnection
  /\ execs' = [execs EXCEPT ![s] = [@ EXCEPT !.pc = "findProcess",
                                             !.steps = Append(@, "process"),
                                             !.cacheAtFullPath = NullConnection]]
  /\ UNCHANGED <<hasStats, lastRefreshSucceeded, statusText, refreshPromise,
                 consecutiveFailures, refreshTimer, orphanTimers, loopStreak, lastSettled, stateDefined>>
  /\ Frame

\* fetchStats after validation rejects (764, 767).
StatsFails(s) ==
  /\ execs[s].pc = "fetchStats"
  /\ ~execs[s].fetchDone
  /\ MayFail
  /\ Catch(s, execs[s])
  /\ Frame

\* The timer of minDelay fires (715).
MinDelayElapsed(s) ==
  /\ Running(s)
  /\ ~execs[s].minDelayDone
  /\ LET e == [execs[s] EXCEPT !.minDelayDone = TRUE]
     IN IF e.pc = "failDelay" THEN /\ UNCHANGED lastRefreshSucceeded
                                   /\ ShowError(s, e)
        ELSE IF e.fetchDone THEN StatsResolved(s, e)
        ELSE /\ execs' = [execs EXCEPT ![s] = e]
             /\ UNCHANGED <<cachedConnection, hasStats, lastRefreshSucceeded, statusText,
                            refreshPromise, consecutiveFailures, refreshTimer, orphanTimers,
                            loopStreak, lastSettled, stateDefined>>
  /\ Frame

\* (mutation of ProcessFound: the port query is issued whether or not a token
\* was extracted)
ProcessFoundNoTokenCheck(s, cmd) ==
  /\ execs[s].pc = "findProcess"
  /\ LET token == ExtractCsrfToken(cmd)
         e == [execs[s] EXCEPT !.steps = Append(@, "token"), !.csrfToken = token]
     IN IF ~isActive THEN Abort(s, execs[s])
        ELSE /\ execs' = [execs EXCEPT ![s] = [e EXCEPT !.pc = "findPorts",
                                                        !.steps = Append(@, "ports")]]
             /\ UNCHANGED <<cachedConnection, hasStats, lastRefreshSucceeded, statusText,
                            refreshPromise, consecutiveFailures, refreshTimer, orphanTimers,
                            loopStreak, lastSettled, stateDefined>>
  /\ Frame

\* MIN_DISPLAY_DELAY_MS passes after a refresh(true) that joined execution s.
\* The join (686-692) armed no timer, so no code runs; the delay of the
\* execution itself, armed earlier, has elapsed before.
JoinDelayPasses(s) ==
  /\ Running(s)
  /\ execs[s].joinShown
  /\ execs[s].minDelayDone
  /\ execs' = [execs EXCEPT ![s].joinShown = FALSE]
  /\ UNCHANGED <<cachedConnection, hasStats, lastRefreshSucceeded, statusText,
                 refreshPromise, consecutiveFailures, refreshTimer, orphanTimers,
                 loopStreak, lastSettled, stateDefined>>
  /\ Frame

\* findAntigravityProcess resolves (742-751): the token is extracted and the
\* port query issued.
ProcessFound(s, cmd) ==
  /\ execs[s].pc = "findProcess"
  /\ LET token == ExtractCsrfToken(cmd)
         e == [execs[s] EXCEPT !.steps = Append(@, "token"), !.csrfToken = token]
     IN IF ~isActive THEN Abort(s, execs[s])
        ELSE IF token = Undefined \/ token = <<>>
        THEN MayFail /\ Catch(s, e)
        ELSE /\ execs' = [execs EXCEPT ![s] = [e EXCEPT !.pc = "findPorts",
                                                        !.steps = Append(@, "ports")]]
             /\ UNCHANGED <<cachedConnection, hasStats, lastRefreshSucceeded, statusText,
                            refreshPromise, consecutiveFailures, refreshTimer, orphanTimers,
                            loopStreak, lastSettled, stateDefined>>
  /\ Frame

ProcessFails(s) ==
  /\ execs[s].pc = "findProcess"
  /\ MayFail
  /\ Catch(s, execs[s])
  /\ Frame

\* (mutation of PortsFound: the connection is cached before it is validated)
PortsFoundCachingEarly(s, ports) ==
  /\ execs[s].pc = "findPorts"
  /\ IF ~isActive THEN Abort(s, execs[s])
     ELSE IF ports = {}
     THEN MayFail /\ Catch(s, execs[s])
     ELSE /\ cachedConnection' = Connection(MinOf(ports), execs[s].csrfToken, now)
          /\ execs' = [execs EXCEPT ![s] = [@ EXCEPT !.pc = "findValidPort",
                                                     !.ports = ports,
                                                     !.steps = Append(@, "validate")]]
          /\ UNCHANGED <<hasStats, lastRefreshSucceeded, statusText,
                         refreshPromise, consecutiveFailures, refreshTimer, orphanTimers,
                         loopStreak, lastSettled, stateDefined>>
  /\ Frame

\* findListeningPorts resolves (751-758).
PortsFound(s, ports) ==
  /\ execs[s].pc = "findPorts"
  /\ IF ~isActive THEN Abort(s, execs[s])
     ELSE IF ports = {}
     THEN MayFail /\ Catch(s, execs[s])
     ELSE /\ execs' = [execs EXCEPT ![s] = [@ EXCEPT !.pc = "findValidPort",
                                                     !.ports = ports,
                                                     !.steps = Append(@, "validate")]]
          /\ UNCHANGED <<cachedConnection, hasStats, lastRefreshSucceeded, statusText,
                         refreshPromise, consecutiveFailures, refreshTimer, orphanTimers,
                         loopStreak, lastSettled, stateDefined>>
  /\ Frame

PortsFails(s) ==
  /\ execs[s].pc = "findPorts"
  /\ MayFail
  /\ Catch(s, execs[s])
  /\ Frame

\* (mutation of ValidatedConnection: the handle is stored without the time
\* of its validation)
ValidatedConnectionAtEpoch(port, token, t) == Connection(port, token, 0)

\* The connection stored at 762.
ValidatedConnection(port, token, t) == Connection(port, token, t)

\* findValidPort resolves (758-764): the cache is populated and the stats
\* request issued.
ValidPortFound(s, port) ==
  /\ execs[s].pc = "findValidPort"
  /\ port \in execs[s].ports
  /\ IF ~isActive THEN Abort(s, execs[s])
     ELSE /\ cachedConnection' = ValidatedConnection(port, execs[s].csrfToken, now)
          /\ execs' = [execs EXCEPT ![s] = [@ EXCEPT !.pc = "fetchStats",
                                                     !.steps = @ \o <<"cache", "stats">>,
                                                     !.usedConn = cachedConnection',
                                                     !.issuedAt = now]]
          /\ UNCHANGED <<hasStats, lastRefreshSucceeded, statusText, refreshPromise,
                         consecutiveFailures, refreshTimer, orphanTimers, loopStreak,
                         lastSettled, stateDefined>>
  /\ Frame

ValidPortFails(s) ==
  /\ execs[s].pc = "findValidPort"
  /\ MayFail
  /\ Catch(s, execs[s])
  /\ Frame

(***************************************************************************)
(* The triggers                                                            *)
(***************************************************************************)
\* ExtensionState.clearTimers (382-391) leaves no held timer pending.
TimersCleared == /\ refreshTimer' = 0
                 /\ initialTimer' = FALSE

\* startAutoRefresh (497-532) up to the call of runLoop: nothing without a state.
AutoRefreshStarted == IF stateDefined THEN TimersCleared
                      ELSE UNCHANGED <<refreshTimer, initialTimer>>

RefreshFrame == UNCHANGED <<cachedConnection, hasStats, lastRefreshSucceeded,
                            consecutiveFailures, orphanTimers, loopStreak,
                            stateDefined, deactivateAwaits, isActive, now, Others>>

\* The timeout of activate fires (482-484): startAutoRefresh(true).
InitialTimerFires ==
  /\ initialTimer
  /\ IF stateDefined THEN TimersCleared
     ELSE initialTimer' = FALSE /\ UNCHANGED refreshTimer
  /\ Refresh(TRUE, TRUE)
  /\ UNCHANGED refreshInterval
  /\ RefreshFrame

\* The timer held in state.refreshTimer fires (528): runLoop(false).
RefreshTimerFires ==
  /\ refreshTimer # 0
  /\ refreshTimer' = 0
  /\ Refresh(FALSE, TRUE)
  /\ UNCHANGED <<initialTimer, refreshInterval>>
  /\ RefreshFrame

\* A runLoop timer whose handle was overwritten fires: runLoop(false).
OrphanTimerFires ==
  /\ orphanTimers > 0
  /\ orphanTimers' = orphanTimers - 1
  /\ Refresh(FALSE, TRUE)
  /\ UNCHANGED <<cachedConnection, hasStats, lastRefreshSucceeded, consecutiveFailures,
                 refreshTimer, initialTimer, refreshInterval, loopStreak,
                 stateDefined, deactivateAwaits, isActive, now, Others>>

\* The refresh command (417): refresh(true).
ManualRefresh ==
  /\ MustJoin => JoinRoom
  /\ Refresh(TRUE, FALSE)
  /\ UNCHANGED <<refreshTimer, initialTimer, refreshInterval>>
  /\ RefreshFrame

\* onDidChangeConfiguration for ag-usage.refreshInterval (441-444):
\* startAutoRefresh().
RefreshIntervalChanged(seconds) ==
  /\ AwaitingChains + orphanTimers < MaxChains
  /\ refreshInterval' = seconds
  /\ AutoRefreshStarted
  /\ Refresh(FALSE, TRUE)
  /\ RefreshFrame

\* rerenderFromCache() (538-553) returns true and has rendered.
CanRerender == stateDefined /\ refreshPromise = 0 /\ hasStats /\ lastRefreshSucceeded

\* A theme change, or a configuration change that restarts nothing
\* (450-457): render from the cache or refresh(false).
ThemeChanged ==
  /\ IF CanRerender
     THEN /\ statusText' = "stats"
          /\ UNCHANGED <<execs, refreshPromise, lastSettled>>
     ELSE /\ MustJoin => JoinRoom
          /\ Refresh(FALSE, FALSE)
  /\ UNCHANGED <<refreshTimer, initialTimer, refreshInterval>>
  /\ RefreshFrame

\* deactivate() has been called by the host.
DeactivateCalled == deactivateAwaits # 0 \/ ~stateDefined

\* (mutation of Deactivate: the pending refresh is not awaited)
DeactivateWithoutAwait ==
  /\ stateDefined
  /\ deactivateAwaits = 0
  /\ stateDefined' = FALSE
  /\ deactivateAwaits' = refreshPromise
  /\ UNCHANGED <<isActive, cachedConnection, hasStats, refreshPromise, lastRefreshSucceeded,
                 consecutiveFailures, statusText, refreshTimer, initialTimer, orphanTimers,
                 refreshInterval, now, execs, loopStreak, lastSettled, Others>>

\* deactivate() up to its await (487-491), or to its end when no refresh is
\* pending (493).
Deactivate ==
  /\ stateDefined
  /\ deactivateAwaits = 0
  /\ IF refreshPromise # 0
     THEN deactivateAwaits' = refreshPromise /\ UNCHANGED stateDefined
     ELSE stateDefined' = FALSE /\ UNCHANGED deactivateAwaits
  /\ UNCHANGED <<isActive, cachedConnection, hasStats, refreshPromise, lastRefreshSucceeded,
                 consecutiveFailures, statusText, refreshTimer, initialTimer, orphanTimers,
                 refreshInterval, now, execs, loopStreak, lastSettled, Others>>

\* ExtensionState.dispose (368-380): the host disposes the subscriptions of
\* the extension once it has called deactivate().
Dispose ==
  /\ DeactivateCalled
  /\ isActive
  /\ isActive' = FALSE
  /\ TimersCleared
  /\ cachedConnection' = NullConnection
  /\ hasStats' = FALSE
  /\ refreshPromise' = 0
  /\ lastRefreshSucceeded' = FALSE
  /\ consecutiveFailures' = 0
  /\ statusText' = "disposed"
  /\ loopStreak' = 0
  /\ UNCHANGED <<stateDefined, deactivateAwaits, orphanTimers, refreshInterval, now, execs,
                 lastSettled, Others>>

\* Wall-clock time passes.
AdvanceTime ==
  /\ now < MaxTicks * TimeStep
  /\ now' = now + TimeStep
  /\ UNCHANGED <<stateDefined, deactivateAwaits, isActive, cachedConnection, hasStats,
                 refreshPromise, lastRefreshSucceeded,
                 consecutiveFailures, statusText, refreshTimer, initialTimer, orphanTimers,
                 refreshInterval, execs, loopStreak, lastSettled, Others>>

\* Half of CACHE_TTL_MS passes.
AdvanceHalfTime ==
  /\ now + (TimeStep \div 2) <= MaxTicks * TimeStep
  /\ now' = now + (TimeStep \div 2)
  /\ UNCHANGED <<stateDefined, deactivateAwaits, isActive, cachedConnection, hasStats,
                 refreshPromise, lastRefreshSucceeded,
                 consecutiveFailures, statusText, refreshTimer, initialTimer, orphanTimers,
                 refreshInterval, execs, loopStreak, lastSettled, Others>>

(***************************************************************************)
(* findValidPort (history.ts 721-781).  An error message is a sequence of  *)
(* tokens, a word (lower-cased, as the patterns are case-insensitive) or a *)
(* decimal number; a probe is one checkPort request.                       *)
(***************************************************************************)
W(word) == [isNum |-> FALSE, word |-> word, num |-> 0]
N(num) == [isNum |-> TRUE, word |-> "", num |-> num]

\* The failures makeRequest (783-876) and the socket can report for a probe.
ErrorKinds == {"status403", "status500", "refused", "timeout", "ssl"}

\* The message of the Error a probe of `port` rejects with.
ErrorMessage(kind, port) ==
  CASE kind = "status403" ->
         <<W("http"), W("request"), W("failed"), W("with"), W("status"), N(403)>>
    [] kind = "status500" ->
         <<W("http"), W("request"), W("failed"), W("with"), W("status"), N(500)>>
    [] kind = "refused" ->
         <<W("connect"), W("econnrefused"), N(127), N(0), N(0), N(1), N(port)>>
    [] kind = "timeout" -> <<W("request"), W("timed"), W("out")>>
    [] OTHER ->
         <<W("write"), W("eproto"), W("ssl"), W("routines"), W("wrong"), W("version"),
           W("number")>>

RECURSIVE Pow10(_)
Pow10(n) == IF n <= 0 THEN 1 ELSE 10 * Pow10(n - 1)

\* The decimal digits of n contain the three digits of d.
HasDigits(n, d) == \E k \in 0..6 : (n \div Pow10(k)) % 1000 = d

HasWord(msg, words) == \E i \in 1..Len(msg) : ~msg[i].isNum /\ msg[i].word \in words
HasNumberWith(msg, digits) ==
  \E i \in 1..Len(msg) : msg[i].isNum /\ \E d \in digits : HasDigits(msg[i].num, d)
WordBefore(msg, a, b) ==
  \E i, j \in 1..Len(msg) : i < j /\ ~msg[i].isNum /\ ~msg[j].isNum
                            /\ msg[i].word = a /\ msg[j].word = b

\* (mutation of IsNonRetriableError: no failure is classified as permanent)
IsNonRetriableErrorNever(message) == FALSE

\* NON_RETRIABLE_PATTERNS and isNonRetriableError (727-735)
IsNonRetriableError(message) ==
  \/ HasWord(message, {"unauthorized", "forbidden"}) \/ HasNumberWith(message, {401, 403})
  \/ WordBefore(message, "invalid", "token") \/ WordBefore(message, "token", "invalid")
  \/ HasWord(message, {"certificate", "ssl", "tls"})

\* The candidate lists findValidPort is called with.
FvpPortPool == {80, 81, 82, 40312}
NoMessage == <<>>

FvpIdle ==
  [pc |-> "idle", ports |-> {}, attempt |-> 0, probe |-> [p \in FvpPortPool |-> "none"],
   errors |-> [p \in FvpPortPool |-> NoMessage], result |-> 0, thrown |-> "none",
   rounds |-> 0, issued |-> 0, delays |-> 0,
   kinds |-> [p \in FvpPortPool |-> "none"], seenKinds |-> {}, overdue |-> FALSE]

\* errors.size and the values of the errors Map
ErrorPorts(f) == {p \in FvpPortPool : f.errors[p] # NoMessage}

\* One round: errors.clear() and one probe per candidate port (750-761).
RoundStarted(f) ==
  [f EXCEPT !.pc = "probing",
            !.errors = [p \in FvpPortPool |-> NoMessage],
            !.kinds = [p \in FvpPortPool |-> "none"],
            !.probe = [p \in FvpPortPool |-> IF p \in f.ports THEN "pending" ELSE "none"],
            !.rounds = @ + 1,
            !.issued = @ + Cardinality(f.ports)]

\* The Error thrown at 772-780.
Thrown(f) ==
  IF Cardinality({f.errors[p] : p \in ErrorPorts(f)}) = 1 THEN "single" ELSE "summary"

\* (mutation of FvpCall: no check of the length of the list)
FvpCallUnchecked ==
  /\ fvp.pc = "called"
  /\ fvp' = RoundStarted(fvp)
  /\ UNCHANGED <<orchVars, csrfVars, aggVars, unitVars>>

\* findValidPort is called (737-753).
FvpCall ==
  /\ fvp.pc = "called"
  /\ fvp' = IF fvp.ports = {}
            THEN [fvp EXCEPT !.pc = "failed", !.thrown = "noports"]
            ELSE RoundStarted(fvp)
  /\ UNCHANGED <<orchVars, csrfVars, aggVars, unitVars>>

\* (mutation of ProbeSucceeds: the round waits for every probe to settle
\* before it takes a winner)
ProbeSucceedsAllSettled(port) ==
  /\ fvp.pc = "probing"
  /\ fvp.probe[port] = "pending"
  /\ LET f == [fvp EXCEPT !.probe[port] = "ok"]
     IN fvp' = IF \E p \in f.ports : f.probe[p] = "pending"
               THEN f
               ELSE [f EXCEPT !.pc = "returned", !.result = port]
  /\ UNCHANGED <<orchVars, csrfVars, aggVars, unitVars>>

\* A probe of the round in progress resolves: Promise.any resolves with its
\* port and findValidPort returns it (753-756).
ProbeSucceeds(port) ==
  /\ fvp.pc = "probing"
  /\ fvp.probe[port] = "pending"
  /\ fvp' = [fvp EXCEPT !.probe[port] = "ok", !.pc = "returned", !.result = port]
  /\ UNCHANGED <<orchVars, csrfVars, aggVars, unitVars>>

\* The catch of a round all of whose probes rejected, and the loop's next
\* step (745-770).
RoundFailed(f) ==
  LET allNonRetriable == /\ Cardinality(ErrorPorts(f)) = Cardinality(f.ports)
                         /\ \A p \in ErrorPorts(f) : IsNonRetriableError(f.errors[p])
  IN IF allNonRetriable
     THEN [f EXCEPT !.pc = "failed", !.thrown = Thrown(f)]
     ELSE IF f.attempt + 1 < MAX_PORT_VALIDATION_ATTEMPTS
     THEN [f EXCEPT !.pc = "delay", !.attempt = @ + 1]
     ELSE [f EXCEPT !.pc = "failed", !.attempt = @ + 1, !.thrown = Thrown(f)]

\* A probe of the round in progress rejects (757-760); when it was the last
\* one, Promise.any rejects.
ProbeFails(port, kind) ==
  /\ fvp.pc = "probing"
  /\ fvp.probe[port] = "pending"
  /\ LET msg == ErrorMessage(kind, port)
         f == [fvp EXCEPT !.probe[port] = "failed",
                          !.errors[port] = msg,
                          !.kinds[port] = kind,
                          !.seenKinds = @ \cup {kind}]
     IN fvp' = IF \E p \in f.ports : f.probe[p] = "pending" THEN f ELSE RoundFailed(f)
  /\ UNCHANGED <<orchVars, csrfVars, aggVars, unitVars>>

\* delay(RETRY_DELAY_MS) elapses and the next round starts (746-753).
RetryDelayElapsed ==
  /\ fvp.pc = "delay"
  /\ fvp' = [RoundStarted(fvp) EXCEPT !.delays = @ + 1]
  /\ UNCHANGED <<orchVars, csrfVars, aggVars, unitVars>>

\* The time allowed for the whole discovery passes while findValidPort is
\* waiting.  findValidPort arms no timer of its own (737-781): the only
\* timers are the timeout of each request and the retry delay, so no code
\* runs at this moment.
OverallDeadlinePasses ==
  /\ fvp.pc \in {"probing", "delay"}
  /\ ~fvp.overdue
  /\ fvp' = [fvp EXCEPT !.overdue = TRUE]
  /\ UNCHANGED <<orchVars, csrfVars, aggVars, unitVars>>

\* A probe abandoned by a race that is already won settles (758 still runs
\* for a rejection; nobody reads the Map any more).
AbandonedProbeSettles(port, ok) ==
  /\ fvp.pc = "returned"
  /\ fvp.probe[port] = "pending"
  /\ fvp' = IF ok THEN [fvp EXCEPT !.probe[port] = "ok"]
            ELSE [fvp EXCEPT !.probe[port] = "failed",
                             !.errors[port] = ErrorMessage("timeout", port)]
  /\ UNCHANGED <<orchVars, csrfVars, aggVars, unitVars>>

(***************************************************************************)
(* extractCsrfToken on its own: command lines made of up to MaxArgs        *)
(* fragments, a fragment being one symbol or the flag in one of its three  *)
(* encodings (with values of different lengths, to tell them apart).       *)
(***************************************************************************)
Fragments ==
  {<<x>> : x \in Symbols} \cup
  { <<"flag", "eq", "dq", "w", "dq">>,
    <<"flag", "sp", "sq", "w", "w", "sq">>,
    <<"flag", "eq", "sq", "sp", "w", "sp", "w", "sp", "sq">>,
    <<"flag", "eq", "w", "w", "w">> }

RECURSIVE CmdLinesOf(_)
CmdLinesOf(n) ==
  IF n = 0 THEN {<<>>}
  ELSE LET shorter == CmdLinesOf(n - 1)
       IN shorter \cup {c \o f : c \in shorter, f \in Fragments}

CsrfIdle ==
  /\ cmdLine = <<>>
  /\ csrfResult = Pending
  /\ csrfPc = "idle"

ExtractCall ==
  /\ csrfPc = "called"
  /\ csrfResult' = ExtractCsrfToken(cmdLine)
  /\ csrfPc' = "returned"
  /\ UNCHANGED <<cmdLine, orchVars, portVars, aggVars, unitVars>>

(***************************************************************************)
(* The aggregation of fetchStats (history.ts 878-923).  Fractions are in   *)
(* percent: 30 is the remainingFraction 0.3.  A label is the sequence of   *)
(* its words; a reset time is the string of the response.                  *)
(***************************************************************************)
CATEGORY_GEMINI_PRO == "Gemini 3 Pro"
CATEGORY_GEMINI_FLASH == "Gemini 3 Flash"
CATEGORY_CLAUDE_GPT == "Claude/GPT"
Categories == {CATEGORY_GEMINI_PRO, CATEGORY_GEMINI_FLASH, CATEGORY_CLAUDE_GPT}

\* String.prototype.toLowerCase on the words labels are made of
LowerCase(word) ==
  CASE word = "Gemini" -> "gemini"
    [] word = "Flash" -> "flash"
    [] word = "GEMINI" -> "gemini"
    [] word = "FLASH" -> "flash"
    [] word = "Pro" -> "pro"
    [] word = "Claude" -> "claude"
    [] word = "Sonnet" -> "sonnet"
    [] OTHER -> word

\* lowerLabel.includes(keyword)
Includes(label, keyword) == \E i \in 1..Len(label) : LowerCase(label[i]) = keyword

\* (mutation of DetermineCategory: the gemini keyword is tested first)
DetermineCategoryGeminiFirst(label) ==
  IF Includes(label, "gemini") THEN CATEGORY_GEMINI_PRO
  ELSE IF Includes(label, "flash") THEN CATEGORY_GEMINI_FLASH
  ELSE CATEGORY_CLAUDE_GPT

\* determineCategory (878-883)
DetermineCategory(label) ==
  IF Includes(label, "flash") THEN CATEGORY_GEMINI_FLASH
  ELSE IF Includes(label, "gemini") THEN CATEGORY_GEMINI_PRO
  ELSE CATEGORY_CLAUDE_GPT

\* quotaInfo.remainingFraction: absent, a finite number, or present but not
\* a finite number (a string, an overflowing literal).
Absent == [kind |-> "absent", value |-> 0]
NotFinite == [kind |-> "notFinite", value |-> 0]
Number(v) == [kind |-> "number", value |-> v]

\* quotaInfo.resetTime: absent, the empty string, a string Date cannot
\* parse, or an ISO date (given by its epoch seconds).
NoResetTime == [kind |-> "absent", at |-> 0]
EmptyString == [kind |-> "empty", at |-> 0]
Garbage == [kind |-> "garbage", at |-> 0]
IsoDate(t) == [kind |-> "iso", at |-> t]

NaN == [isNaN |-> TRUE, value |-> 0]
Finite(v) == [isNaN |-> FALSE, value |-> v]
\* new Date(resetTimeStr).getTime()
DateGetTime(str) == IF str.kind = "iso" THEN Finite(str.at) ELSE NaN

Null == [isNull |-> TRUE, value |-> 0]
NotNull(v) == [isNull |-> FALSE, value |-> v]

\* The quota a new group starts from: the 1 of `{ quota: 1, resetTime: null }`, in percent.
InitialQuota == 100
NoGroup == [present |-> FALSE, quota |-> 0, resetTime |-> Null]
NewGroup == [present |-> TRUE, quota |-> InitialQuota, resetTime |-> Null]

\* 900: the quota a model counts with
ModelQuota(fraction) == IF fraction.kind = "number" THEN fraction.value ELSE 0

\* (mutation of FoldedQuota: the comparison is reversed)
FoldedQuotaLargest(quota, modelQuota) == IF modelQuota > quota THEN modelQuota ELSE quota

\* (mutation of FoldedQuota: the quota of the last model of the category wins)
FoldedQuotaLast(quota, modelQuota) == modelQuota

\* 904-906
FoldedQuota(quota, modelQuota) == IF modelQuota < quota THEN modelQuota ELSE quota

\* (mutation of FoldedResetTime: the comparison is reversed)
FoldedResetTimeLatest(resetTime, str) ==
  IF str.kind \in {"absent", "empty"} THEN resetTime
  ELSE LET ts == DateGetTime(str)
       IN IF ~ts.isNaN /\ (resetTime.isNull \/ ts.value > resetTime.value)
          THEN NotNull(ts.value)
          ELSE resetTime

\* 908-916
FoldedResetTime(resetTime, str) ==
  IF str.kind \in {"absent", "empty"} THEN resetTime
  ELSE LET ts == DateGetTime(str)
       IN IF ~ts.isNaN /\ (resetTime.isNull \/ ts.value < resetTime.value)
          THEN NotNull(ts.value)
          ELSE resetTime

\* One iteration of the loop at 896-917.
FoldModel(gs, model) ==
  LET category == DetermineCategory(model.label)
      group == IF gs[category].present THEN gs[category] ELSE NewGroup
  IN [gs EXCEPT ![category] =
        [group EXCEPT !.quota = FoldedQuota(@, ModelQuota(model.fraction)),
                      !.resetTime = FoldedResetTime(@, model.resetTime)]]

RECURSIVE FoldModels(_, _)
FoldModels(gs, list) ==
  IF list = <<>> THEN gs ELSE FoldModels(FoldModel(gs, Head(list)), Tail(list))

\* The groups of the snapshot fetchStats returns for a response (893-922).
Aggregate(list) == FoldModels([c \in Categories |-> NoGroup], list)

Labels == { <<"Gemini", "3", "Pro">>, <<"Gemini", "3", "Flash">>, <<"Claude", "Sonnet">> }
Fractions == {Absent, NotFinite, Number(-20), Number(30), Number(80), Number(150)}
ResetTimes == {NoResetTime, EmptyString, Garbage, IsoDate(1000), IsoDate(2000)}
RawModels == [label : Labels, fraction : Fractions, resetTime : ResetTimes]

\* The raw model lists of up to n entries.
ModelLists(n) == UNION {[1..k -> RawModels] : k \in 0..n}

AggIdle ==
  /\ models = <<>>
  /\ groups = [c \in Categories |-> NoGroup]
  /\ aggPc = "idle"

\* The response has arrived and fetchStats builds the snapshot.
AggregateCall ==
  /\ aggPc = "called"
  /\ groups' = Aggregate(models)
  /\ aggPc' = "returned"
  /\ UNCHANGED <<models, orchVars, portVars, csrfVars, unitVars>>

(***************************************************************************)
(* makeRequest (history.ts 783-876): one call.  The promise is settled     *)
(* once; the request and its response emit events until they are through.  *)
(***************************************************************************)
ReqIdle ==
  [pc |-> "idle", port |-> [kind |-> "integer", carry |-> 0, low |-> 0], signal |-> "none", outcome |-> "pending",
   issued |-> FALSE, listening |-> FALSE, cleanedUp |-> FALSE, removals |-> 0,
   destroyed |-> 0, events |-> 0, abortedPending |-> FALSE, abortedAtCall |-> FALSE,
   received |-> 0, ended |-> FALSE, exceeded |-> FALSE, exceededPending |-> FALSE,
   decidedByEnd |-> FALSE,
   statusCode |-> 0, json |-> FALSE]

\* getPorts: no call yet.
PortQueryIdle ==
  [pc |-> "idle", platform |-> "linux", pid |-> [kind |-> "integer", carry |-> 0, low |-> 0],
   lines |-> <<>>, tried |-> <<>>, errors |-> <<>>, reported |-> <<>>, thrown |-> "none",
   result |-> <<>>]

\* Session tracking before activation.
SessionIdle ==
  [active |-> FALSE, quota |-> 0, focused |-> TRUE, hasStats |-> FALSE, last |-> 0,
   lastOk |-> FALSE, hasTracker |-> FALSE, cumulative |-> 0, baselineNull |-> TRUE,
   baseline |-> 0, lastQuota |-> 0, gainAwaiting |-> FALSE, reported |-> 0,
   focusedUse |-> 0, unfocusedUse |-> 0, refills |-> 0]

\* findAntigravityProcess: no call yet.
SelectionIdle ==
  [pc |-> "idle", processes |-> <<>>, chosen |-> 0, thrown |-> "none",
   platform |-> "linux", candidates |-> <<>>, checked |-> 0, validated |-> <<>>]

\* createErrorTooltip: no call yet.
DisplayIdle ==
  [pc |-> "idle", wrapper |-> "none", cause |-> "none", second |-> "none", tooltip |-> "none"]

\* statsData.groups: the categories present, each with its quota in per cent
\* of the full quota (quota >= 1 is quota >= 100, quota * 100 the number).
NoGroups == [category \in {} |-> 0]
NoStats == [isNull |-> TRUE, groups |-> NoGroups]
Stats(g) == [isNull |-> FALSE, groups |-> g]

\* Per category and kind of message, what has happened so far: "never" no
\* message yet; "notified" a message and no processed observation on the
\* other side since; "crossed" such an observation since the last message;
\* "again" a further message after a crossing, nothing since.
NeverNotified == [category \in Categories |-> "never"]

\* platform.ts 330-331 and the defaults of the two settings (GEMINI.md 121-123)
NotificationsIdle ==
  [isActive |-> TRUE,
   notifyOnFullQuota |-> FALSE,
   lowQuotaNotificationThreshold |-> 0,
   lastStatsData |-> NoStats,
   fullQuotaNotifiedCategories |-> {},
   lowQuotaNotifiedCategories |-> {},
   shownFull |-> {},
   shownLow |-> {},
   fullSoFar |-> NeverNotified,
   lowSoFar |-> NeverNotified]

\* previousQuotas = {} (16)
NoQuotas == [category \in {} |-> 0]

\* A QuotaHistory constructed without entries under the default settings.
HistoryIdle ==
  [pc |-> "constructed",
   entries |-> <<>>,
   previousQuotas |-> NoQuotas,
   maxHistoryItems |-> 10,
   enableHistoryTracking |-> TRUE,
   now |-> 0,
   snapshots |-> 0,
   heldBefore |-> <<>>,
   newEntries |-> <<>>,
   observedBefore |-> NoQuotas,
   observed |-> NoQuotas]

ViewIdle ==
  /\ display = DisplayIdle
  /\ notifications = NotificationsIdle
  /\ history = HistoryIdle

UnitsIdle ==
  /\ req = ReqIdle
  /\ portQuery = PortQueryIdle
  /\ selection = SelectionIdle
  /\ session = SessionIdle
  /\ ViewIdle

\* A number of the program: the integer carry * 2^31 + low, that integer
\* and a half, or NaN.
Integer(n) == [kind |-> "integer", carry |-> 0, low |-> n]
Fraction(n) == [kind |-> "fraction", carry |-> 0, low |-> n]
Beyond32Bits(n) == [kind |-> "integer", carry |-> 1, low |-> n]
NotANumber == [kind |-> "NaN", carry |-> 0, low |-> 0]

\* Number.isInteger(x), x > n, x >= n and x <= n for an integer n
IsInteger(x) == x.kind = "integer"
GreaterThan(x, n) ==
  x.kind # "NaN" /\ (x.carry > 0 \/ x.low > n \/ (x.low = n /\ x.kind = "fraction"))
AtLeast(x, n) == x.kind # "NaN" /\ (x.carry > 0 \/ x.low >= n)
AtMost(x, n) ==
  x.kind # "NaN" /\ x.carry = 0 /\ (x.low < n \/ (x.low = n /\ x.kind = "integer"))

\* validatePid (utils.ts 6-8)
MAX_PID_32BIT_SIGNED == 2147483647
ValidatePid(pid) == IsInteger(pid) /\ GreaterThan(pid, 0) /\ AtMost(pid, MAX_PID_32BIT_SIGNED)

\* validatePort (utils.ts 10-12)
MAX_PORT == 65535
MIN_PORT == 1
ValidatePortNumber(port) == IsInteger(port) /\ AtLeast(port, MIN_PORT) /\ AtMost(port, MAX_PORT)

\* validatePort of a port that is an integer
ValidatePort(port) == ValidatePortNumber(Integer(port))

\* utils.ts 4
MAX_BUFFER_SIZE == 1048576

\* resolve and reject of a promise: the first one settles it.
Settled(r, outcome) == IF r.outcome = "pending" THEN [r EXCEPT !.outcome = outcome] ELSE r

\* cleanup (804-810)
Cleanup(r) ==
  IF r.cleanedUp THEN r
  ELSE [r EXCEPT !.cleanedUp = TRUE,
                 !.removals = IF r.signal # "none" THEN @ + 1 ELSE @,
                 !.listening = FALSE]

\* request.destroy()
Destroyed(r) == [r EXCEPT !.destroyed = @ + 1]

\* (mutation of AbortHandler: the request is destroyed but the promise is
\* left to the events of the request)
AbortHandlerDestroyOnly(r) == Destroyed(Cleanup(r))

\* abortHandler (798-802)
AbortHandler(r) == Settled(Destroyed(Cleanup(r)), "aborted")

\* The call up to its return (784-874).
MakeRequestCall ==
  /\ req.pc = "called"
  /\ req' = IF ~ValidatePortNumber(req.port)
            THEN [req EXCEPT !.pc = "returned", !.outcome = "invalidPort"]
            ELSE IF req.signal = "aborted"
            THEN [req EXCEPT !.pc = "returned", !.outcome = "aborted", !.abortedAtCall = TRUE]
            ELSE [req EXCEPT !.pc = "returned", !.issued = TRUE,
                             !.listening = (req.signal # "none")]
  /\ UNCHANGED <<orchVars, portVars, csrfVars, aggVars, exceptReq>>

\* The caller's signal fires: the listener, if still registered, runs once.
SignalAborts ==
  /\ req.pc = "returned"
  /\ req.signal = "unaborted"
  /\ req' = LET r == [req EXCEPT !.signal = "aborted",
                                 !.abortedPending = (req.listening /\ req.outcome = "pending")]
            IN IF req.listening THEN AbortHandler(r) ELSE r
  /\ UNCHANGED <<orchVars, portVars, csrfVars, aggVars, exceptReq>>

\* The events of the request and the error event of its response.
RequestEvents == {"responseError", "requestError", "timeout"}

\* The handlers of these events (856-871).
Handled(r, event) ==
  CASE event = "responseError" -> Settled(Cleanup(r), "responseError")
    [] event = "requestError"  -> Settled(Cleanup(r), "requestError")
    [] OTHER                   -> Settled(Destroyed(Cleanup(r)), "timeout")

\* The request or its response emits one of them, before or after the
\* promise is settled.
RequestEvent(event) ==
  /\ req.pc = "returned"
  /\ req.issued
  /\ req.events < MaxEvents
  /\ req' = [Handled(req, event) EXCEPT !.events = @ + 1]
  /\ UNCHANGED <<orchVars, portVars, csrfVars, aggVars, exceptReq>>

\* (mutation of DataHandler: the chunk is appended, then the size is tested)
DataHandlerAppendFirst(r, size) ==
  LET appended == [r EXCEPT !.received = @ + size]
  IN IF appended.received > MAX_BUFFER_SIZE
     THEN Settled(Destroyed(Cleanup(appended)), "overflow")
     ELSE appended

\* The handler of 'data' (833-840); received is responseData.length.
DataHandler(r, size) ==
  IF r.received + size > MAX_BUFFER_SIZE
  THEN Settled(Destroyed(Cleanup(r)), "overflow")
  ELSE [r EXCEPT !.received = @ + size]

\* The lengths of the chunks of a response.
ChunkSizes == {MAX_BUFFER_SIZE \div 2, MAX_BUFFER_SIZE \div 2 + 1, MAX_BUFFER_SIZE}

\* The response emits 'data' with a chunk, which it does until it ends.
DataReceived(size) ==
  /\ req.pc = "returned"
  /\ req.issued
  /\ ~req.ended
  /\ req.events < MaxEvents
  /\ req' = [DataHandler(req, size) EXCEPT
               !.events = @ + 1,
               !.exceeded = @ \/ (req.received + size > MAX_BUFFER_SIZE),
               !.exceededPending = @ \/ (req.received + size > MAX_BUFFER_SIZE
                                          /\ req.outcome = "pending")]
  /\ UNCHANGED <<orchVars, portVars, csrfVars, aggVars, exceptReq>>

\* (mutation of EndHandler: the body is parsed whatever the status)
EndHandlerParseFirst(r, statusCode, json) ==
  IF json THEN Settled(Cleanup(r), "resolved") ELSE Settled(Cleanup(r), "parseError")

\* The handler of 'end' (842-854); json tells whether JSON.parse accepts
\* responseData.
EndHandler(r, statusCode, json) ==
  IF statusCode < 200 \/ statusCode >= 300 THEN Settled(Cleanup(r), "statusError")
  ELSE IF json THEN Settled(Cleanup(r), "resolved")
  ELSE Settled(Cleanup(r), "parseError")

\* response.statusCode
StatusCodes == {199, 200, 299, 300, 500}

\* The response ends with a status and the body received so far, which is
\* JSON or is not; an empty body is not.
ResponseEnds(statusCode, json) ==
  /\ req.pc = "returned"
  /\ req.issued
  /\ ~req.ended
  /\ req.events < MaxEvents
  /\ json => req.received > 0
  /\ req' = [EndHandler(req, statusCode, json) EXCEPT
               !.events = @ + 1, !.ended = TRUE, !.statusCode = statusCode, !.json = json,
               !.decidedByEnd = (req.outcome = "pending")]
  /\ UNCHANGED <<orchVars, portVars, csrfVars, aggVars, exceptReq>>

(***************************************************************************)
(* getPorts (platform.ts 60-85 WindowsPlatform, 172-204 UnixPlatform): one *)
(* call.  A utility is a spawned command that succeeds with its output or  *)
(* fails with an error.                                                    *)
(***************************************************************************)
\* os.platform()
Platforms == {"win32", "linux", "darwin"}

\* The commands of each family, in the order of the code.
Utilities(platform) ==
  CASE platform = "win32"  -> <<"powershell", "netstat">>
    [] platform = "darwin" -> <<"lsof">>
    [] OTHER               -> <<"ss", "lsof", "netstat">>

\* parseInt(text, 10) of the port of a line: its digits, or NaN when it
\* has none.
ParseInt(text) == IF text.kind = "digits" THEN Integer(text.value) ELSE NotANumber

\* The output of a utility, parsed: the valid ports of the lines of the pid,
\* in the order of the lines (parseNetstatOutput, parseUnixLsofOutput,
\* parseUnixSsOutput, parseUnixNetstatOutput, and 78-84 for powershell).
ParsedPorts(q) ==
  LET OfPid(line) == line.pid = q.pid /\ ValidatePortNumber(ParseInt(line.port))
      kept == SelectSeq(q.lines, OfPid)
  IN [i \in 1..Len(kept) |-> ParseInt(kept[i].port).low]

\* (mutation of Unique: the list is returned as it is)
Unfiltered(list) == list

\* Array.from(new Set(rawPorts)) (history.ts 718): the first occurrence of
\* each value, in order.
RECURSIVE Unique(_)
Unique(list) ==
  IF list = <<>> THEN <<>>
  ELSE LET before == Unique(SubSeq(list, 1, Len(list) - 1))
           last == list[Len(list)]
       IN IF \E i \in 1..Len(before) : before[i] = last THEN before ELSE Append(before, last)

\* The utility whose exit the call is waiting for.
RunningUtility(q) == q.tried[Len(q.tried)]

\* (mutation of FindListeningPortsCall: the pid is not validated)
FindListeningPortsCallUnchecked ==
  /\ portQuery.pc = "called"
  /\ portQuery' = [portQuery EXCEPT !.pc = "running",
                                    !.tried = <<Utilities(portQuery.platform)[1]>>]
  /\ UNCHANGED <<orchVars, portVars, csrfVars, aggVars, exceptPortQuery>>

\* findListeningPorts is called (history.ts 710-716): it validates the pid,
\* and getPorts spawns the first utility.
FindListeningPortsCall ==
  /\ portQuery.pc = "called"
  /\ portQuery' = IF ~ValidatePid(portQuery.pid)
                  THEN [portQuery EXCEPT !.pc = "failed", !.thrown = "invalidPid"]
                  ELSE [portQuery EXCEPT !.pc = "running",
                                         !.tried = <<Utilities(portQuery.platform)[1]>>]
  /\ UNCHANGED <<orchVars, portVars, csrfVars, aggVars, exceptPortQuery>>

\* The running utility succeeds: getPorts returns its parsed output and
\* findListeningPorts the values of it (history.ts 716-718).
UtilitySucceeds ==
  /\ portQuery.pc = "running"
  /\ portQuery' = [portQuery EXCEPT !.pc = "returned",
                                    !.result = Unique(ParsedPorts(portQuery))]
  /\ UNCHANGED <<orchVars, portVars, csrfVars, aggVars, exceptPortQuery>>

\* The catch of a failed utility on Windows (68-75).
WindowsFailure(q) ==
  IF RunningUtility(q) = "powershell"
  THEN [q EXCEPT !.tried = Append(@, "netstat")]
  ELSE [q EXCEPT !.pc = "failed", !.thrown = "queryFailed", !.reported = <<"netstat">>]

\* The catch of a failed lsof on macOS (179-181).
DarwinFailure(q) == [q EXCEPT !.pc = "failed", !.thrown = "queryFailed", !.reported = <<"lsof">>]

\* The catch of a failed utility elsewhere, and what follows the loop
\* (192-203).
UnixFailure(q) ==
  LET queries == Utilities(q.platform)
      errors == Append(q.errors, RunningUtility(q))
  IN IF Len(q.tried) < Len(queries)
     THEN [q EXCEPT !.errors = errors, !.tried = Append(@, queries[Len(q.tried) + 1])]
     ELSE [q EXCEPT !.errors = errors, !.pc = "failed", !.thrown = "queryFailed",
                    !.reported = errors]

\* The running utility fails.
UtilityFails ==
  /\ portQuery.pc = "running"
  /\ portQuery' = CASE portQuery.platform = "win32"  -> WindowsFailure(portQuery)
                    [] portQuery.platform = "darwin" -> DarwinFailure(portQuery)
                    [] OTHER                         -> UnixFailure(portQuery)
  /\ UNCHANGED <<orchVars, portVars, csrfVars, aggVars, exceptPortQuery>>

(***************************************************************************)
(* findAntigravityProcess (history.ts 695-708).  A candidate is a process  *)
(* of the list of getProcesses; of its command line the model keeps        *)
(* whether it includes PROCESS_IDENTIFIERS.ANTIGRAVITY and whether it      *)
(* includes PROCESS_IDENTIFIERS.CSRF_TOKEN.                                *)
(***************************************************************************)
\* The test of the find at 699-701.
IsAntigravityProcess(p) == p.antigravity \/ p.csrfToken

\* processes.find(...) (699-701): the index of the first process that passes
\* the test, 0 for undefined.
Find(list) ==
  IF \E i \in 1..Len(list) : IsAntigravityProcess(list[i])
  THEN CHOOSE i \in 1..Len(list) :
         IsAntigravityProcess(list[i]) /\ \A j \in 1..(i - 1) : ~IsAntigravityProcess(list[j])
  ELSE 0

\* findAntigravityProcess, from the list of getProcesses to its return or
\* its throw.
FindAntigravityProcess ==
  /\ selection.pc = "called"
  /\ LET found == Find(selection.processes)
     IN selection' = IF found = 0
                     THEN [selection EXCEPT !.pc = "failed", !.thrown = "notfound"]
                     ELSE [selection EXCEPT !.pc = "returned", !.chosen = found]
  /\ UNCHANGED <<orchVars, portVars, csrfVars, aggVars, exceptSelection>>

(***************************************************************************)
(* UnixPlatform.getProcesses (platform.ts 139-170) and isValidProcess      *)
(* (212-224).  A candidate is a line of ps that names the language server, *)
(* with what fs.promises.stat of its /proc entry and readFile of its       *)
(* environ give: the owner, and the HOME of the process.                   *)
(***************************************************************************)
\* (mutation of OwnerAccepted: the uid is not compared)
OwnerAcceptedAnyUid(candidate) == candidate.stat # "error"

\* 216-217: stat threw (the catch at 221 returns false), or the uid differs
OwnerAccepted(candidate) == candidate.stat = "own"

\* 219-220: readFile threw (the catch returns false), or HOME is compared
HomeAccepted(candidate) == candidate.environ = "sameHome"

\* The loop at 164-168 moves on from the candidate it awaited, which is
\* kept or not.
NextCandidate(s, keep) ==
  [s EXCEPT !.checked = @ + 1,
            !.validated = IF keep THEN Append(@, s.checked + 1) ELSE @,
            !.pc = IF s.checked + 1 = Len(s.candidates) THEN "listed" ELSE "stat"]

\* ps exits with its output (141, 147-168).  Off Linux isValidProcess
\* returns true at once (213) and the loop runs through.
PsSucceeds ==
  /\ selection.pc = "ps"
  /\ selection' =
       IF selection.platform # "linux" \/ selection.candidates = <<>>
       THEN [selection EXCEPT !.pc = "listed",
                              !.checked = Len(selection.candidates),
                              !.validated = [i \in 1..Len(selection.candidates) |-> i]]
       ELSE [selection EXCEPT !.pc = "stat"]
  /\ UNCHANGED <<orchVars, portVars, csrfVars, aggVars, exceptSelection>>

\* ps fails (142-144).
PsFails ==
  /\ selection.pc = "ps"
  /\ selection' = [selection EXCEPT !.pc = "failed", !.thrown = "psFailed"]
  /\ UNCHANGED <<orchVars, portVars, csrfVars, aggVars, exceptSelection>>

\* fs.promises.stat of the /proc entry of the candidate settles (216-217).
StatSettles ==
  /\ selection.pc = "stat"
  /\ selection' = IF OwnerAccepted(selection.candidates[selection.checked + 1])
                  THEN [selection EXCEPT !.pc = "environ"]
                  ELSE NextCandidate(selection, FALSE)
  /\ UNCHANGED <<orchVars, portVars, csrfVars, aggVars, exceptSelection>>

\* fs.promises.readFile of its environ settles (219-220).
EnvironSettles ==
  /\ selection.pc = "environ"
  /\ selection' = NextCandidate(selection,
                                HomeAccepted(selection.candidates[selection.checked + 1]))
  /\ UNCHANGED <<orchVars, portVars, csrfVars, aggVars, exceptSelection>>

(***************************************************************************)
(* createErrorTooltip (formatter.ts 170-187).  A message is the sequence   *)
(* of its words, lower-cased as the patterns ignore case.                  *)
(***************************************************************************)
\* The messages of the errors executeRefresh can catch, without what wraps
\* them: history.ts 704, platform.ts 748 and 753, makeRequest (786-870),
\* the socket, executeCommand (utils.ts 27-55).
CauseMessage(cause) ==
  CASE cause = "processNotFound" ->
         <<"antigravity", "process", "not", "found", "make", "sure", "antigravity", "is",
           "running">>
    [] cause = "tokenMissing" ->
         <<"csrf", "token", "not", "found", "in", "process", "command", "line">>
    [] cause = "noPorts" ->
         <<"no", "listening", "ports", "found", "for", "the", "antigravity", "process">>
    [] cause = "requestTimeout" -> <<"request", "timed", "out">>
    [] cause = "refused" -> <<"connect", "econnrefused", "127.0.0.1:8080">>
    [] cause = "dns" -> <<"getaddrinfo", "enotfound", "localhost">>
    [] cause = "status" -> <<"http", "request", "failed", "with", "status", "500">>
    [] cause = "parse" -> <<"failed", "to", "parse", "server", "response", "as", "json">>
    [] cause = "oversized" -> <<"response", "exceeded", "1048576", "bytes">>
    [] cause = "aborted" -> <<"request", "aborted">>
    [] cause = "exitCode" -> <<"command", "exited", "with", "code", "1">>
    [] cause = "commandTimeout" -> <<"command", "timed", "out", "after", "10000ms">>
    [] OTHER -> <<"spawn", "ps", "enoent">>

\* What the callers put before the message of the cause: findValidPort
\* (history.ts 773-775), getProcesses and getPorts (platform.ts 23, 73, 144,
\* 180, 203).
WrapperWords(wrapper) ==
  CASE wrapper = "allPortsFailed" -> <<"all", "1", "ports", "failed">>
    [] wrapper = "windowsProcesses" -> <<"failed", "to", "query", "windows", "processes">>
    [] wrapper = "windowsPorts" -> <<"failed", "to", "query", "windows", "ports">>
    [] wrapper = "unixProcesses" -> <<"failed", "to", "query", "unix", "processes">>
    [] wrapper = "lsof" -> <<"failed", "to", "query", "unix", "ports", "calling", "lsof">>
    [] wrapper = "unixPorts" ->
         <<"failed", "to", "query", "unix", "ports", "attempts", "netstat">>
    [] OTHER -> <<>>

\* error.message; the summary of findValidPort for two ports with different
\* errors (776-780) holds the messages of both.
MessageOf(d) ==
  IF d.wrapper = "portChecks"
  THEN <<"all", "port", "checks", "failed", "80">> \o CauseMessage(d.cause)
         \o <<"81">> \o CauseMessage(d.second)
  ELSE WrapperWords(d.wrapper) \o CauseMessage(d.cause)

\* The words follow each other in the message.
Adjacent(message, words) ==
  \E i \in 1..Len(message) :
    /\ i + Len(words) - 1 <= Len(message)
    /\ SubSeq(message, i, i + Len(words) - 1) = words

\* The words of the messages that contain "process".
ProcessWords == {"process", "processes"}

\* ERROR_PATTERNS (170-177), in order
MatchesPattern(n, message) ==
  CASE n = 1 -> \/ Adjacent(message, <<"process", "not", "found">>)
                \/ \E i, j \in 1..Len(message) :
                     /\ i + 1 < j
                     /\ message[i] = "not" /\ message[i + 1] = "found"
                     /\ message[j] \in ProcessWords
    [] n = 2 -> Adjacent(message, <<"csrf", "token">>)
    [] n = 3 -> \/ Adjacent(message, <<"no", "listening", "ports">>)
                \/ \E w \in {"port", "ports"} :
                     \/ Adjacent(message, <<w, "found">>)
                     \/ Adjacent(message, <<w, "not", "found">>)
    [] n = 4 -> \/ Adjacent(message, <<"timed", "out">>)
                \/ Adjacent(message, <<"time", "out">>)
                \/ \E i \in 1..Len(message) : message[i] \in {"timeout", "timedout", "timeout"}
    [] n = 5 -> \/ \E i \in 1..Len(message) : message[i] = "econnrefused"
                \/ Adjacent(message, <<"connection", "refused">>)
    [] OTHER -> \E i \in 1..Len(message) : message[i] \in {"enotfound", "dns"}

\* The tooltips, by what they say.
PatternTooltip(n) ==
  CASE n = 1 -> "process-not-found"
    [] n = 2 -> "token-missing"
    [] n = 3 -> "ports-not-found"
    [] n = 4 -> "timeout"
    [] n = 5 -> "connection-refused"
    [] OTHER -> "dns-failure"

\* createErrorTooltip (179-187): the tooltip of the first pattern that
\* matches, or the generic one.
CreateErrorTooltip(message) ==
  IF \E n \in 1..6 : MatchesPattern(n, message)
  THEN PatternTooltip(CHOOSE n \in 1..6 :
                        /\ MatchesPattern(n, message)
                        /\ \A k \in 1..(n - 1) : ~MatchesPattern(k, message))
  ELSE "generic"

\* The catch of executeRefresh sets the tooltip of the error (772-774).
TooltipCreated ==
  /\ display.pc = "caught"
  /\ display' = [display EXCEPT !.pc = "shown",
                                !.tooltip = CreateErrorTooltip(MessageOf(display))]
  /\ UNCHANGED <<orchVars, portVars, csrfVars, aggVars, coreUnits, exceptDisplay>>

(***************************************************************************)
(* Session usage of one category with perWindowSession on (platform.ts     *)
(* 459-477 onDidChangeWindowState, 594-681 the tracker, renderer.ts        *)
(* 244-258).  `quota` is the quota the server holds; `last` the quota of   *)
(* lastStatsData.  focusedUse and unfocusedUse record, for the properties, *)
(* what was consumed outside and inside a focus-lost .. focus-gained       *)
(* interval.                                                               *)
(***************************************************************************)
Max(a, b) == IF a > b THEN a ELSE b

\* calculatePerCategorySessionUsage (renderer.ts 244-258), quota in units.
SessionUsage(s) ==
  IF ~s.hasTracker THEN 0
  ELSE s.cumulative + (IF ~s.baselineNull /\ s.hasStats THEN Max(0, s.baseline - s.last) ELSE 0)

\* updateFocusBaseline (627-649), statsData being lastStatsData
UpdateFocusBaseline(s) ==
  LET lastKnown == s.lastQuota
      t == [s EXCEPT !.lastQuota = s.last]
  IN IF ~s.baselineNull /\ s.last > lastKnown
     THEN [t EXCEPT !.cumulative = @ + Max(0, s.baseline - lastKnown), !.baseline = s.last]
     ELSE t

\* initializeSessionTracker (594-625), trackSessionUsage on
InitializeSessionTracker(s) ==
  IF s.hasTracker THEN UpdateFocusBaseline(s)
  ELSE [s EXCEPT !.hasTracker = TRUE, !.cumulative = 0, !.baselineNull = FALSE,
                 !.baseline = s.last, !.lastQuota = s.last]

\* renderStats into the status bar
Rendered(s) == [s EXCEPT !.reported = SessionUsage(s)]

\* applyStatsUpdate (696-708) with the statistics the server holds now
StatsApplied(s) ==
  Rendered(InitializeSessionTracker([s EXCEPT !.hasStats = TRUE, !.last = s.quota,
                                              !.lastOk = TRUE]))

\* The catch of executeRefresh (767-775)
RefreshFailed(s) == [s EXCEPT !.lastOk = FALSE]

\* rerenderFromCache (538-553)
RerenderedFromCache(s) ==
  IF s.gainAwaiting \/ ~s.hasStats \/ ~s.lastOk THEN s ELSE Rendered(s)

\* handleWindowFocusLost (651-666)
HandleWindowFocusLost(s) ==
  IF ~s.hasTracker \/ s.baselineNull THEN s
  ELSE [s EXCEPT !.cumulative = @ + Max(0, s.baseline - s.last), !.baselineNull = TRUE]

\* handleWindowFocusGained (668-681)
HandleWindowFocusGained(s) ==
  IF ~s.hasTracker THEN s ELSE [s EXCEPT !.baselineNull = FALSE, !.baseline = s.last]

\* Quota of the category is consumed, by this window while it is focused, by
\* others while it is not.
QuotaConsumed(amount) ==
  /\ session.active
  /\ amount <= session.quota
  /\ session' = [session EXCEPT !.quota = @ - amount,
                                !.focusedUse = IF session.focused THEN @ + amount ELSE @,
                                !.unfocusedUse = IF session.focused THEN @ ELSE @ + amount]
  /\ UNCHANGED <<orchVars, portVars, csrfVars, aggVars, exceptSession>>

\* The server resets the quota of the category.
QuotaRefilled ==
  /\ session.active
  /\ session.quota < FullQuota
  /\ session.refills < MaxRefills
  /\ session' = [session EXCEPT !.quota = FullQuota, !.refills = @ + 1]
  /\ UNCHANGED <<orchVars, portVars, csrfVars, aggVars, exceptSession>>

\* A refresh of the polling loop or of the command succeeds (764-766).
PollSucceeds ==
  /\ session.active
  /\ ~session.gainAwaiting
  /\ session' = StatsApplied(session)
  /\ UNCHANGED <<orchVars, portVars, csrfVars, aggVars, exceptSession>>

\* A refresh of the polling loop or of the command fails (767-775).
PollFails ==
  /\ session.active
  /\ ~session.gainAwaiting
  /\ session' = RefreshFailed(session)
  /\ UNCHANGED <<orchVars, portVars, csrfVars, aggVars, exceptSession>>

\* onDidChangeWindowState with e.focused false (459-463, 473-476).
WindowFocusLost ==
  /\ session.active
  /\ session.focused
  /\ LET s == [session EXCEPT !.focused = FALSE]
     IN session' = IF ~s.hasTracker \/ ~s.hasStats THEN s
                   ELSE RerenderedFromCache(HandleWindowFocusLost(s))
  /\ UNCHANGED <<orchVars, portVars, csrfVars, aggVars, exceptSession>>

\* onDidChangeWindowState with e.focused true, up to its await of
\* refresh(false) (459-466).
WindowFocusGained ==
  /\ session.active
  /\ ~session.focused
  /\ ~session.gainAwaiting
  /\ LET s == [session EXCEPT !.focused = TRUE]
     IN session' = IF ~s.hasTracker \/ ~s.hasStats THEN s
                   ELSE [s EXCEPT !.gainAwaiting = TRUE]
  /\ UNCHANGED <<orchVars, portVars, csrfVars, aggVars, exceptSession>>

\* The refresh awaited at 466 settles, and the handler runs on (467-476).
FocusRefreshSettles(ok) ==
  /\ session.active
  /\ session.gainAwaiting
  /\ LET s == [session EXCEPT !.gainAwaiting = FALSE]
         refreshed == IF ok THEN StatsApplied(s) ELSE RefreshFailed(s)
     IN session' = RerenderedFromCache(HandleWindowFocusGained(refreshed))
  /\ UNCHANGED <<orchVars, portVars, csrfVars, aggVars, exceptSession>>

IntervalChoices == {DEFAULT_REFRESH_INTERVAL}

\* The state after activate (405-485) and the constructor (324-341).
OrchStart ==
  /\ stateDefined = TRUE
  /\ deactivateAwaits = 0
  /\ isActive = TRUE
  /\ cachedConnection = NullConnection
  /\ hasStats = FALSE
  /\ refreshPromise = 0
  /\ lastRefreshSucceeded = FALSE
  /\ consecutiveFailures = 0
  /\ statusText = "rocket"
  /\ refreshTimer = 0
  /\ initialTimer = TRUE
  /\ orphanTimers = 0
  /\ refreshInterval = DEFAULT_REFRESH_INTERVAL
  /\ now = 0
  /\ execs = [s \in Slots |-> IdleExec]
  /\ loopStreak = 0
  /\ lastSettled = NothingSettled

Init ==
  /\ OrchStart
  /\ UnitsIdle
  /\ fvp = FvpIdle
  /\ CsrfIdle
  /\ AggIdle

Next ==
  \/ InitialTimerFires
  \/ RefreshTimerFires
  \/ OrphanTimerFires
  \/ ManualRefresh
  \/ \E seconds \in IntervalChoices : RefreshIntervalChanged(seconds)
  \/ ThemeChanged
  \/ Deactivate
  \/ Dispose
  \/ AdvanceTime
  \/ \E s \in Slots : StatsResponse(s)
  \/ \E s \in Slots : CachedStatsFails(s)
  \/ \E s \in Slots : StatsFails(s)
  \/ \E s \in Slots : MinDelayElapsed(s)
  \/ \E s \in Slots : JoinDelayPasses(s)
  \/ \E s \in Slots, cmd \in ProcessCmdLines : ProcessFound(s, cmd)
  \/ \E s \in Slots : ProcessFails(s)
  \/ \E s \in Slots, ports \in SUBSET PortPool : PortsFound(s, ports)
  \/ \E s \in Slots : PortsFails(s)
  \/ \E s \in Slots, port \in PortPool : ValidPortFound(s, port)
  \/ \E s \in Slots : ValidPortFails(s)

Spec == Init /\ [][Next]_vars

\* What one execution awaits settles: the process and port queries and the
\* requests end or time out, the minimum display delay elapses.
Completion(s) ==
  \/ StatsResponse(s)
  \/ CachedStatsFails(s)
  \/ StatsFails(s)
  \/ MinDelayElapsed(s)
  \/ \E cmd \in ProcessCmdLines : ProcessFound(s, cmd)
  \/ ProcessFails(s)
  \/ \E ports \in SUBSET PortPool : PortsFound(s, ports)
  \/ PortsFails(s)
  \/ \E port \in PortPool : ValidPortFound(s, port)
  \/ ValidPortFails(s)

\* The polling loop, the refresh command, the clock, every outcome of every
\* step of a refresh, and the shutdown.
NextLive ==
  \/ InitialTimerFires
  \/ RefreshTimerFires
  \/ ManualRefresh
  \/ AdvanceTime
  \/ Deactivate
  \/ Dispose
  \/ \E s \in Slots : Completion(s)

\* The same with its scheduling: pending awaits settle and the timers of
\* setTimeout fire.
SpecLive ==
  /\ Init
  /\ [][NextLive]_vars
  /\ \A s \in Slots : WF_vars(Completion(s))
  /\ WF_vars(InitialTimerFires)
  /\ WF_vars(RefreshTimerFires)

\* The polling loop and the refresh command with a clock that also shows
\* the moments between the validation of a connection and its expiry.
SpecCache == Init /\ [][NextLive \/ AdvanceHalfTime]_vars

\* findValidPort on its own: every candidate list, every outcome of every probe.
InitPort ==
  /\ OrchStart
  /\ UnitsIdle
  /\ \E ports \in SUBSET FvpPortPool : fvp = [FvpIdle EXCEPT !.pc = "called", !.ports = ports]
  /\ CsrfIdle
  /\ AggIdle

NextPort ==
  \/ FvpCall
  \/ \E port \in FvpPortPool : ProbeSucceeds(port)
  \/ \E port \in FvpPortPool, kind \in ErrorKinds : ProbeFails(port, kind)
  \/ RetryDelayElapsed
  \/ OverallDeadlinePasses
  \/ \E port \in FvpPortPool, ok \in BOOLEAN : AbandonedProbeSettles(port, ok)

SpecPort == InitPort /\ [][NextPort]_vars

\* A pending probe of `port` settles, one way or the other.
ProbeSettles(port) ==
  \/ ProbeSucceeds(port)
  \/ \E kind \in ErrorKinds : ProbeFails(port, kind)

\* findValidPort when every probe terminates and the retry delay elapses.
SpecPortLive ==
  /\ InitPort
  /\ [][NextPort]_vars
  /\ WF_vars(FvpCall)
  /\ WF_vars(RetryDelayElapsed)
  /\ \A port \in FvpPortPool : WF_vars(ProbeSettles(port))

\* extractCsrfToken on its own.
InitCsrf ==
  /\ OrchStart
  /\ UnitsIdle
  /\ fvp = FvpIdle
  /\ AggIdle
  /\ cmdLine \in CmdLinesOf(MaxArgs)
  /\ csrfResult = Pending
  /\ csrfPc = "called"

NextCsrf == ExtractCall

SpecCsrf == InitCsrf /\ [][NextCsrf]_vars

\* The aggregation on its own.
InitAgg ==
  /\ OrchStart
  /\ UnitsIdle
  /\ fvp = FvpIdle
  /\ CsrfIdle
  /\ models \in ModelLists(MaxModels)
  /\ groups = [c \in Categories |-> NoGroup]
  /\ aggPc = "called"

NextAgg == AggregateCall

SpecAgg == InitAgg /\ [][NextAgg]_vars

\* The aggregation of the lists whose rearrangements are compared: every
\* category, fractions absent, in range and above 1, reset times absent and
\* two different dates.
ReorderedModels ==
  [label : Labels,
   fraction : {Absent, Number(30), Number(80), Number(150)},
   resetTime : {NoResetTime, IsoDate(1000), IsoDate(2000)}]

InitAggOrder ==
  /\ OrchStart
  /\ UnitsIdle
  /\ fvp = FvpIdle
  /\ CsrfIdle
  /\ models \in UNION {[1..k -> ReorderedModels] : k \in 0..MaxModels}
  /\ groups = [c \in Categories |-> NoGroup]
  /\ aggPc = "called"

\* The aggregation of one entry, for every label of up to MaxWords words.
LabelWords == {"Gemini", "GEMINI", "Flash", "FLASH", "Pro", "Claude"}
LabelsOf(n) == UNION {[1..k -> LabelWords] : k \in 0..n}

InitCategory ==
  /\ OrchStart
  /\ UnitsIdle
  /\ fvp = FvpIdle
  /\ CsrfIdle
  /\ \E label \in LabelsOf(MaxWords) :
       models = <<[label |-> label, fraction |-> Number(30), resetTime |-> NoResetTime]>>
  /\ groups = [c \in Categories |-> NoGroup]
  /\ aggPc = "called"

SpecCategory == InitCategory /\ [][NextAgg]_vars

SpecAggOrder == InitAggOrder /\ [][NextAgg]_vars

\* makeRequest on its own: ports on both sides of the valid range, every
\* state of the signal.
RequestPorts ==
  {Integer(MIN_PORT - 1), Integer(MIN_PORT), Integer(MAX_PORT), Integer(MAX_PORT + 1),
   Fraction(8080), NotANumber}

InitReq ==
  /\ OrchStart
  /\ fvp = FvpIdle
  /\ CsrfIdle
  /\ AggIdle
  /\ portQuery = PortQueryIdle
  /\ selection = SelectionIdle
  /\ session = SessionIdle
  /\ ViewIdle
  /\ \E port \in RequestPorts, signal \in {"none", "unaborted", "aborted"} :
       req = [ReqIdle EXCEPT !.pc = "called", !.port = port, !.signal = signal]

NextReq ==
  \/ MakeRequestCall
  \/ SignalAborts
  \/ \E event \in RequestEvents : RequestEvent(event)
  \/ \E size \in ChunkSizes : DataReceived(size)
  \/ \E statusCode \in StatusCodes, json \in BOOLEAN : ResponseEnds(statusCode, json)

SpecReq == InitReq /\ [][NextReq]_vars

\* findListeningPorts on its own: every OS family, pids valid and not, every
\* output of up to MaxLines lines.
QueryPid == 7
QueryPids ==
  {Integer(QueryPid), Integer(MAX_PID_32BIT_SIGNED), Integer(0), Fraction(QueryPid),
   NotANumber, Beyond32Bits(0)}
SocketPids == {Integer(QueryPid), Integer(QueryPid + 1)}
Digits(n) == [kind |-> "digits", value |-> n]
PortTexts == {Digits(MIN_PORT - 1), Digits(8080), Digits(MAX_PORT + 1), [kind |-> "other", value |-> 0]}
OutputLines == [pid : SocketPids, port : PortTexts]

InitPortQuery ==
  /\ OrchStart
  /\ fvp = FvpIdle
  /\ CsrfIdle
  /\ AggIdle
  /\ req = ReqIdle
  /\ selection = SelectionIdle
  /\ session = SessionIdle
  /\ ViewIdle
  /\ \E platform \in Platforms, pid \in QueryPids,
        lines \in UNION {[1..k -> OutputLines] : k \in 0..MaxLines} :
       portQuery = [PortQueryIdle EXCEPT !.pc = "called", !.platform = platform,
                                         !.pid = pid, !.lines = lines]

NextPortQuery ==
  \/ FindListeningPortsCall
  \/ UtilitySucceeds
  \/ UtilityFails

SpecPortQuery == InitPortQuery /\ [][NextPortQuery]_vars

\* makeRequest and findListeningPorts with every argument, on Linux.
InitArguments ==
  /\ OrchStart
  /\ fvp = FvpIdle
  /\ CsrfIdle
  /\ AggIdle
  /\ selection = SelectionIdle
  /\ session = SessionIdle
  /\ ViewIdle
  /\ \E port \in RequestPorts, signal \in {"none", "unaborted"} :
       req = [ReqIdle EXCEPT !.pc = "called", !.port = port, !.signal = signal]
  /\ \E pid \in QueryPids : portQuery = [PortQueryIdle EXCEPT !.pc = "called", !.pid = pid]

SpecArguments == InitArguments /\ [][NextReq \/ NextPortQuery]_vars

\* findAntigravityProcess on its own: every list of up to MaxCandidates
\* candidates, each with or without each marker in its command line.
Candidates == [antigravity : BOOLEAN, csrfToken : BOOLEAN]

InitSelection ==
  /\ OrchStart
  /\ fvp = FvpIdle
  /\ CsrfIdle
  /\ AggIdle
  /\ req = ReqIdle
  /\ portQuery = PortQueryIdle
  /\ session = SessionIdle
  /\ ViewIdle
  /\ \E processes \in UNION {[1..k -> Candidates] : k \in 0..MaxCandidates} :
       selection = [SelectionIdle EXCEPT !.pc = "called", !.processes = processes]

NextSelection == FindAntigravityProcess

SpecSelection == InitSelection /\ [][NextSelection]_vars

\* getProcesses of UnixPlatform on its own: Linux and macOS, every list of
\* up to MaxCandidates candidates.
ProcEntries ==
  [stat : {"own", "other", "error"},
   environ : {"sameHome", "otherHome", "noHome", "error"}]

InitProcesses ==
  /\ OrchStart
  /\ fvp = FvpIdle
  /\ CsrfIdle
  /\ AggIdle
  /\ req = ReqIdle
  /\ portQuery = PortQueryIdle
  /\ session = SessionIdle
  /\ ViewIdle
  /\ \E platform \in {"linux", "darwin"},
        candidates \in UNION {[1..k -> ProcEntries] : k \in 0..MaxCandidates} :
       selection = [SelectionIdle EXCEPT !.pc = "ps", !.platform = platform,
                                         !.candidates = candidates]

NextProcesses ==
  \/ PsSucceeds
  \/ PsFails
  \/ StatSettles
  \/ EnvironSettles

SpecProcesses == InitProcesses /\ [][NextProcesses]_vars

\* createErrorTooltip on its own: every error the catch of executeRefresh
\* can receive from the discovery and from the requests.
DiscoveryCauses == {"processNotFound", "tokenMissing", "noPorts"}
RequestCauses == {"requestTimeout", "refused", "dns", "status", "parse", "oversized", "aborted"}
CommandCauses == {"exitCode", "commandTimeout", "enoent"}
CommandWrappers == {"windowsProcesses", "windowsPorts", "unixProcesses", "lsof", "unixPorts"}
CaughtErrors ==
  {[DisplayIdle EXCEPT !.pc = "caught", !.cause = cause] : cause \in DiscoveryCauses}
  \cup {[DisplayIdle EXCEPT !.pc = "caught", !.wrapper = wrapper, !.cause = cause] :
          wrapper \in {"none", "allPortsFailed"}, cause \in RequestCauses}
  \cup {[DisplayIdle EXCEPT !.pc = "caught", !.wrapper = "portChecks", !.cause = pair[1],
                            !.second = pair[2]] :
          pair \in {p \in RequestCauses \X RequestCauses : p[1] # p[2]}}
  \cup {[DisplayIdle EXCEPT !.pc = "caught", !.wrapper = wrapper, !.cause = cause] :
          wrapper \in CommandWrappers, cause \in CommandCauses}

InitTooltip ==
  /\ OrchStart
  /\ fvp = FvpIdle
  /\ CsrfIdle
  /\ AggIdle
  /\ req = ReqIdle
  /\ portQuery = PortQueryIdle
  /\ selection = SelectionIdle
  /\ session = SessionIdle
  /\ display \in CaughtErrors
  /\ notifications = NotificationsIdle
  /\ history = HistoryIdle

SpecTooltip == InitTooltip /\ [][TooltipCreated]_vars

\* Session tracking on its own, perWindowSession and trackSessionUsage on:
\* the quota of the category starts full, the window starts focused.
InitSession ==
  /\ OrchStart
  /\ fvp = FvpIdle
  /\ CsrfIdle
  /\ AggIdle
  /\ req = ReqIdle
  /\ portQuery = PortQueryIdle
  /\ selection = SelectionIdle
  /\ ViewIdle
  /\ session = [SessionIdle EXCEPT !.active = TRUE, !.quota = FullQuota]

NextSession ==
  \/ \E amount \in 1..FullQuota : QuotaConsumed(amount)
  \/ QuotaRefilled
  \/ PollSucceeds
  \/ PollFails
  \/ WindowFocusLost
  \/ WindowFocusGained
  \/ FocusRefreshSettles(TRUE)
  \/ FocusRefreshSettles(FALSE)

SpecSession == InitSession /\ [][NextSession]_vars

(***************************************************************************)
(* Properties of the orchestrator                                          *)
(***************************************************************************)
Settling(s) == Running(s) /\ execs'[s].pc = "idle"
StatsInFlight(s) == execs[s].pc \in {"cachedFetch", "fetchStats"}
Awaiters(e) == e.loops + e.joiners
IsPrefix(p, q) == Len(p) <= Len(q) /\ SubSeq(q, 1, Len(p)) = p

\* C1: single-flight refresh. At most one executeRefresh runs at any moment;
\* a refresh() made while one is in flight (and the state active) starts no
\* second discovery/fetch sequence; and a caller that joined returns only in
\* the step in which the execution it awaits finishes.
C1_SingleFlight ==
  /\ [](Cardinality(RunningSlots) <= 1)
  /\ [](\A s \in Slots : (Running(s) /\ isActive) => refreshPromise = s)
  /\ [][\A s \in Slots :
          /\ (refreshPromise # 0 /\ Running(s)') => Running(s)
          /\ (Running(s) /\ Awaiters(execs'[s]) < Awaiters(execs[s])) => Settling(s)]_vars

\* C1 (witness): a timer-driven refresh in flight that a second caller joined.
C1_Witness ==
  \E s \in Slots : Running(s) /\ execs[s].loops >= 1 /\ execs[s].joiners >= 1

\* C2: a stats request is only ever sent over a connection younger than
\* CACHE_TTL_MS at the moment of sending, and a refresh that found the cache
\* expired sends it only after the whole rediscovery path: process query,
\* credential extraction, port query, port validation.
C2_StaleCacheNeverUsed ==
  \A s \in Slots :
    /\ StatsInFlight(s) =>
         /\ ~execs[s].usedConn.isNull
         /\ execs[s].issuedAt - execs[s].usedConn.timestamp < CACHE_TTL_MS
    /\ execs[s].staleAtStart =>
         /\ execs[s].pc # "cachedFetch"
         /\ IsPrefix(execs[s].steps, FullPathSteps)
         /\ (StatsInFlight(s) => execs[s].steps = FullPathSteps)

\* C2 (witness): a refresh started on an expired cache has rediscovered and is
\* fetching.
C2_Witness ==
  \E s \in Slots : execs[s].staleAtStart /\ execs[s].pc = "fetchStats"

\* C3 (the claim): after every refresh the polling loop awaited, the counter
\* is the number k of consecutive failed refreshes of the loop since the last
\* successful refresh and the next attempt is scheduled after
\* min(base * 2^(k-1), max); after a success the counter is 0 and the next
\* attempt is scheduled after the configured interval.
C3_BackoffPerFailedRefresh ==
  [][\A s \in Slots :
       (Settling(s) /\ isActive /\ execs[s].loops > 0) =>
          IF lastRefreshSucceeded'
          THEN /\ consecutiveFailures' = 0
               /\ refreshTimer' = IntervalDelay(refreshInterval)
          ELSE /\ consecutiveFailures' = loopStreak'
               /\ refreshTimer' = BackoffDelay(loopStreak')]_vars

\* C6: when the stats request over the fresh cached connection fails, the
\* same execution clears the cache and issues the process query; from there it
\* walks the rediscovery path once, in order, and if that fails too the refresh
\* ends with lastRefreshSucceeded false.
C6_SoftCachedFailure ==
  /\ [][\A s \in Slots :
          (execs[s].pc = "cachedFetch" /\ execs'[s].pc \notin {"cachedFetch", "idle"}) =>
             /\ cachedConnection'.isNull
             /\ execs'[s].pc = "findProcess"
             /\ execs'[s].steps = <<"cached", "process">>]_vars
  /\ [](\A s \in Slots :
          (Running(s) /\ execs[s].steps[1] = "cached") =>
             IsPrefix(Tail(execs[s].steps), FullPathSteps))
  /\ []((lastSettled.outcome # "none" /\ Len(lastSettled.steps) > 1
          /\ lastSettled.steps[1] = "cached") =>
             /\ IsPrefix(Tail(lastSettled.steps), FullPathSteps)
             /\ lastSettled.outcome = "success" => lastSettled.steps = <<"cached">> \o FullPathSteps
             /\ (lastSettled.outcome = "failure" /\ isActive) => ~lastRefreshSucceeded)

\* C6 (witness): a refresh whose cached request failed, which rediscovered in
\* the same execution and failed there too.
C6_Witness ==
  /\ lastSettled.outcome = "failure"
  /\ Len(lastSettled.steps) > 1
  /\ lastSettled.steps[1] = "cached"
  /\ isActive

\* C7 (the claim): a refresh that failed in the rediscovery path ends with
\* cachedConnection equal to its value when the path began.
C7_FailureKeepsCache ==
  (lastSettled.outcome = "failure" /\ isActive) => lastSettled.cacheKept

\* C7 (amended): a refresh that failed before the cache was populated at 762
\* (process query, credential extraction, port query, port validation) ends
\* with cachedConnection as it was when the path began; one that failed in the
\* stats request after validation ends with the connection validated in this
\* refresh in the cache.
C7_FailureKeepsCacheUnlessValidated ==
  (lastSettled.outcome = "failure" /\ isActive) =>
     IF lastSettled.steps[Len(lastSettled.steps)] = "stats"
     THEN lastSettled.cacheValidated /\ ~lastSettled.cacheKept
     ELSE lastSettled.cacheKept

\* C7 (witness): a refresh that failed in port validation.
C7_Witness ==
  /\ lastSettled.outcome = "failure"
  /\ isActive
  /\ lastSettled.steps[Len(lastSettled.steps)] = "validate"

(***************************************************************************)
(* Properties of findValidPort                                             *)
(***************************************************************************)
\* C4: first success wins. findValidPort is never still probing once a probe
\* of the round has succeeded; the port it returns is a candidate whose probe
\* succeeded in that round (so not one whose probe failed), and it returns
\* while the other probes may still be pending.
C4_FirstSuccessWins ==
  /\ fvp.pc = "probing" => \A p \in fvp.ports : fvp.probe[p] # "ok"
  /\ fvp.pc = "returned" =>
       /\ fvp.result \in fvp.ports
       /\ fvp.probe[fvp.result] = "ok"
       /\ fvp.errors[fvp.result] = NoMessage
  /\ fvp.pc \in {"failed", "delay"} => \A p \in fvp.ports : fvp.probe[p] = "failed"

\* C4 (witness): port 81 of [80, 81, 82] has answered and is returned while
\* the probes of 80 and 82 are still pending.
C4_Witness ==
  /\ fvp.pc = "returned"
  /\ fvp.ports = {80, 81, 82}
  /\ fvp.result = 81
  /\ fvp.probe[80] = "pending"
  /\ fvp.probe[82] = "pending"

\* The failures the claims call non-retriable: an HTTP 401/403 answer, a
\* certificate/TLS failure.
PermanentKinds == {"status403", "ssl"}

\* C5: a round in which every candidate port failed with a non-retriable
\* error is the last one: no retry delay follows it, and when no retriable
\* failure was ever seen findValidPort fails after one round of one probe per
\* port.
C5_NonRetriableStops ==
  /\ fvp.pc = "delay" => \E p \in fvp.ports : fvp.kinds[p] \notin PermanentKinds
  /\ (fvp.pc = "failed" /\ fvp.ports # {} /\ fvp.seenKinds \subseteq PermanentKinds) =>
       /\ fvp.rounds = 1
       /\ fvp.delays = 0
       /\ fvp.issued = Cardinality(fvp.ports)
  /\ (fvp.pc = "probing" /\ fvp.rounds > 1) => ~(fvp.seenKinds \subseteq PermanentKinds)

\* C5 (witness): the single port 80 answered 403 and findValidPort has failed
\* after one probe.
C5_Witness ==
  /\ fvp.pc = "failed"
  /\ fvp.ports = {80}
  /\ fvp.errors[80] = ErrorMessage("status403", 80)
  /\ fvp.issued = 1

(***************************************************************************)
(* extractCsrfToken                                                        *)
(***************************************************************************)
Encodings == <<"dq", "sq", "bare">>

\* The flag at i is followed by separators up to, not including, j.
SeparatedAt(c, i, j) == j > i + 1 /\ \A m \in (i + 1)..(j - 1) : c[m] \in SepChars

\* The occurrences <<i, j, k>> of an encoding: the flag at i, the value from j to k.
OccurrencesOf(c, enc) ==
  LET quote == enc
      starts == {i \in 1..Len(c) : c[i] = "flag"}
      ValueStarts(i) ==
        {j \in (i + 2)..Len(c) :
           /\ SeparatedAt(c, i, IF enc = "bare" THEN j ELSE j - 1)
           /\ IF enc = "bare" THEN c[j] \in WordChars ELSE c[j - 1] = quote}
      ValueEnds(j) ==
        {k \in j..Len(c) :
           IF enc = "bare"
           THEN /\ \A m \in j..k : c[m] \in WordChars
                /\ k = Len(c) \/ c[k + 1] \notin WordChars
           ELSE /\ \A m \in j..k : c[m] # quote
                /\ k < Len(c) /\ c[k + 1] = quote}
  IN UNION { UNION { {<<i, j, k>> : k \in ValueEnds(j)} : j \in ValueStarts(i) } : i \in starts }

LeftmostValue(c, enc) ==
  LET occ == OccurrencesOf(c, enc)
      t == CHOOSE t \in occ : \A u \in occ : t[1] <= u[1]
  IN SubSeq(c, t[2], t[3])

\* A value without the white space around it.
Stripped(v) ==
  LET keep == {m \in 1..Len(v) : v[m] # "sp"}
  IN IF keep = {} THEN <<>> ELSE SubSeq(v, MinOf(keep), MaxOf(keep))

FirstEncoding(c) ==
  IF OccurrencesOf(c, "dq") # {} THEN "dq"
  ELSE IF OccurrencesOf(c, "sq") # {} THEN "sq"
  ELSE IF OccurrencesOf(c, "bare") # {} THEN "bare"
  ELSE "none"

FlagCount(c) == Cardinality({i \in 1..Len(c) : c[i] = "flag"})

ModelsOf(category) ==
  {i \in 1..Len(models) : DetermineCategory(models[i].label) = category}

\* The remaining fraction of a model, an absent one (or one that is not a
\* finite number) counting as 0.
RemainingOf(i) ==
  IF models[i].fraction.kind = "number" THEN models[i].fraction.value ELSE 0

RemainingIn(category) == {RemainingOf(i) : i \in ModelsOf(category)}

\* The valid reset timestamps of a category.
ResetsIn(category) ==
  {models[i].resetTime.at : i \in {m \in ModelsOf(category) : models[m].resetTime.kind = "iso"}}

C10_EarliestResetTime ==
  aggPc = "returned" =>
    \A category \in Categories :
      groups[category].resetTime =
        IF ResetsIn(category) = {} THEN Null ELSE NotNull(MinOf(ResetsIn(category)))

\* The later reset time comes first in the list and the earlier one is kept.
C10_Witness ==
  /\ aggPc = "returned"
  /\ Len(models) = 2
  /\ ModelsOf(CATEGORY_GEMINI_FLASH) = {1, 2}
  /\ models[1].resetTime = IsoDate(2000)
  /\ models[2].resetTime = IsoDate(1000)
  /\ groups[CATEGORY_GEMINI_FLASH].resetTime = NotNull(1000)

\* The rearrangements of a list.
Rearrangements(list) ==
  {[i \in 1..Len(list) |-> list[f[i]]] :
     f \in {g \in [1..Len(list) -> 1..Len(list)] : \A i, j \in 1..Len(list) : g[i] = g[j] => i = j}}

\* C11: the aggregation is order-independent and deterministic: every
\* permutation of the raw model list gives the same categories, each with the
\* same quota and the same resetTime, and so does aggregating the list again.
C11_OrderIndependent ==
  aggPc = "returned" =>
    /\ Aggregate(models) = groups
    /\ \A list \in Rearrangements(models) :
         LET permuted == Aggregate(list)
         IN \A category \in Categories :
              /\ permuted[category].present = groups[category].present
              /\ permuted[category].quota = groups[category].quota
              /\ permuted[category].resetTime = groups[category].resetTime

\* Two different models of one category, the more exhausted and the earlier
\* to reset coming last; the reversed list gives the same groups.
C11_Witness ==
  /\ aggPc = "returned"
  /\ Len(models) = 2
  /\ ModelsOf(CATEGORY_GEMINI_PRO) = {1, 2}
  /\ models[1].fraction = Number(80) /\ models[2].fraction = Number(30)
  /\ models[1].resetTime = IsoDate(2000) /\ models[2].resetTime = IsoDate(1000)
  /\ groups = Aggregate(<<models[2], models[1]>>)
  /\ groups[CATEGORY_GEMINI_PRO].quota = 30

(***************************************************************************)
(* deactivate                                                              *)
(***************************************************************************)
\* C12: deactivate() does not complete while a refresh is in flight: called
\* with one pending it awaits it, and from its completion on no discovery or
\* fetch sequence is running, whatever timer is still pending and whatever
\* trigger arrives later.
C12_DeactivateAwaitsRefresh ==
  /\ (deactivateAwaits # 0 /\ stateDefined) => Running(deactivateAwaits)
  /\ ~stateDefined => RunningSlots = {}
  /\ ~stateDefined => refreshPromise = 0

\* deactivate() has completed after awaiting a refresh, and a timer of the
\* polling loop is still pending.
C12_Witness ==
  /\ ~stateDefined
  /\ deactivateAwaits # 0
  /\ isActive
  /\ refreshTimer # 0

(***************************************************************************)
(* Recovery                                                                *)
(***************************************************************************)
\* The module still has its state and the state has not been disposed.
Live == stateDefined /\ isActive

\* The polling loop has a next attempt coming: a timer is pending or a chain
\* is awaiting a refresh.
LoopAlive == initialTimer \/ refreshTimer # 0 \/ AwaitingChains > 0

\* C13: no failure leaves the orchestrator stuck: the in-flight marker is
\* eventually cleared whatever step fails; while the extension is active the
\* polling loop has a next attempt scheduled and a manual trigger can start a
\* new sequence; and after a failed refresh a new discovery/fetch sequence is
\* eventually started (unless the extension is shut down first).
C13_NoFailureSticks ==
  /\ (refreshPromise # 0) ~> (refreshPromise = 0)
  /\ [](Live => LoopAlive)
  /\ []((Live /\ refreshPromise = 0) => ENABLED (ManualRefresh /\ refreshPromise' # 0))
  /\ (lastSettled.outcome = "failure" /\ Live) ~> (RunningSlots # {} \/ ~Live)

\* The second failure in a row of the polling loop, in port validation, has
\* settled: the marker is clear and the next attempt is scheduled.
C13_Witness ==
  /\ Live
  /\ lastSettled.outcome = "failure"
  /\ lastSettled.steps = <<"process", "token", "ports", "validate">>
  /\ refreshPromise = 0
  /\ consecutiveFailures = 2
  /\ refreshTimer # 0

\* The steps of the full rediscovery path among the steps of an execution:
\* what follows the attempt over the cached connection, if there was one.
FullPath(steps) == IF steps # <<>> /\ Head(steps) = "cached" THEN Tail(steps) ELSE steps

\* The first n steps of the full path.
FirstSteps(n) == SubSeq(FullPathSteps, 1, n)

HasToken(e) == e.csrfToken # Undefined /\ e.csrfToken # <<>>

\* C21: in the full rediscovery path the steps run in the order process
\* query, credential extraction, port query, port validation, cache
\* population, stats request. The port query is issued only with a credential,
\* the probes only with a non-empty port list, the stats request only over the
\* validated connection, and a refresh that failed stopped at the failing
\* step.
C21_OrderedFailFast ==
  /\ \A s \in Slots :
       LET e == execs[s]
           path == FullPath(e.steps)
       IN /\ IsPrefix(path, FullPathSteps)
          /\ e.pc = "cachedFetch" => e.steps = <<"cached">>
          /\ e.pc = "findProcess" => path = FirstSteps(1)
          /\ e.pc = "findPorts" => (path = FirstSteps(3) /\ HasToken(e))
          /\ e.pc = "findValidPort" => (path = FirstSteps(4) /\ HasToken(e) /\ e.ports # {})
          /\ e.pc = "fetchStats" =>
               /\ path = FullPathSteps
               /\ HasToken(e)
               /\ ~e.usedConn.isNull
               /\ e.usedConn.port \in e.ports
               /\ e.usedConn.csrfToken = e.csrfToken
          /\ e.pc = "failDelay" => path \in {FirstSteps(n) : n \in {1, 2, 3, 4, 6}}
          /\ (Len(path) >= 2 /\ ~HasToken(e)) => path = FirstSteps(2)
  /\ lastSettled.outcome = "failure" =>
       FullPath(lastSettled.steps) \in {FirstSteps(n) : n \in {1, 2, 3, 4, 6}}
  /\ lastSettled.outcome = "success" =>
       (lastSettled.steps = <<"cached">> \/ FullPath(lastSettled.steps) = FullPathSteps)

\* C21 (witness): a refresh failed at the credential extraction, before any
\* port query.
C21_Witness ==
  /\ lastSettled.outcome = "failure"
  /\ lastSettled.steps = <<"process", "token">>

\* C22: the result of a refresh (the rendered snapshot or the error display)
\* replaces the in-progress indicator of a refresh(true) only once
\* MIN_DISPLAY_DELAY_MS has passed since that call, whether the call started
\* the execution or joined it.
C22_MinimumDisplay ==
  [][\A s \in Slots :
       (Running(s) /\ execs'[s].pc = "idle" /\ statusText' \in {"stats", "error"}) =>
         /\ execs[s].show => (execs[s].minDelayDone \/ MinDelayElapsed(s))
         /\ ~execs[s].joinShown]_vars

\* C15: findValidPort called with an empty list of candidate ports fails
\* in the call itself: no probe is issued, no round starts, no retry delay is
\* waited for.
C15_EmptyListFailsAtOnce ==
  (fvp.ports = {} /\ fvp.pc # "called") =>
    /\ fvp.pc = "failed"
    /\ fvp.thrown = "noports"
    /\ fvp.issued = 0
    /\ fvp.rounds = 0
    /\ fvp.delays = 0
    /\ \A p \in FvpPortPool : fvp.probe[p] = "none"

\* C15 (witness): the call with no candidate port has failed.
C15_Witness == fvp.ports = {} /\ fvp.pc = "failed" /\ fvp.thrown = "noports"

\* C18: port discovery is bounded by an overall timeout, separate from the
\* timeout of a request: when it elapses and no probe has succeeded,
\* findValidPort fails with a timeout error of its own instead of waiting on.
C18_OverallTimeout ==
  [][(~fvp.overdue /\ fvp'.overdue) => (fvp'.pc = "failed" /\ fvp'.thrown = "timeout")]_vars

\* The last probe of a round fails: the round is over.
RoundEnds == fvp.pc = "probing" /\ fvp'.pc \in {"delay", "failed"}

\* A round that failed with at least one retriable failure is followed by the
\* retry delay while rounds are left, and by the failure when none is.
C20_RetriesWhenRetriable ==
  [][(RoundEnds /\ \E p \in fvp.ports : fvp'.kinds[p] \notin PermanentKinds) =>
       fvp'.pc = (IF fvp.rounds < MAX_PORT_VALIDATION_ATTEMPTS THEN "delay" ELSE "failed")]_vars

\* After the delay every candidate port is probed again.
C20_ReprobesEveryPort ==
  [][fvp.pc = "delay" =>
       /\ fvp'.pc = "probing"
       /\ \A p \in fvp.ports : fvp'.probe[p] = "pending"
       /\ fvp'.issued = fvp.issued + Cardinality(fvp.ports)
       /\ fvp'.rounds = fvp.rounds + 1
       /\ fvp'.delays = fvp.delays + 1]_vars

\* No more rounds than MAX_PORT_VALIDATION_ATTEMPTS, one delay between two
\* rounds.
C20_RoundsBounded ==
  /\ fvp.rounds <= MAX_PORT_VALIDATION_ATTEMPTS
  /\ fvp.issued = fvp.rounds * Cardinality(fvp.ports)
  /\ fvp.rounds > 0 => fvp.delays = fvp.rounds - 1
  /\ fvp.pc = "delay" => fvp.rounds < MAX_PORT_VALIDATION_ATTEMPTS

\* findValidPort returns or throws.
C20_Terminates == <>(fvp.pc \in {"returned", "failed"})

\* C20: bounded retry in findValidPort: when all probes of a round fail and
\* at least one failure is retriable, findValidPort waits RETRY_DELAY_MS and
\* probes every candidate port again; the rounds never exceed
\* MAX_PORT_VALIDATION_ATTEMPTS, after which it fails; it terminates when
\* every probe terminates.
C20_BoundedRetry ==
  /\ C20_RetriesWhenRetriable
  /\ C20_ReprobesEveryPort
  /\ []C20_RoundsBounded
  /\ C20_Terminates

(***************************************************************************)
(* makeRequest                                                             *)
(***************************************************************************)
\* C14: cooperative cancellation in makeRequest: a signal that fires before
\* the request completes destroys the request and the call rejects with the
\* aborted error; a signal already aborted at call time makes the call reject
\* without issuing a request; events arriving after the abort do not change
\* the outcome; the abort listener is removed exactly once.
C14_CooperativeCancellation ==
  /\ req.abortedPending => (req.outcome = "aborted" /\ req.destroyed >= 1)
  /\ req.abortedAtCall => (req.outcome = "aborted" /\ ~req.issued /\ req.events = 0)
  /\ (req.pc = "returned" /\ req.signal = "aborted" /\ ~req.issued) =>
       req.outcome \in {"aborted", "invalidPort"}
  /\ req.removals <= 1
  /\ (req.abortedPending \/ (req.signal # "none" /\ req.issued /\ req.outcome # "pending")) =>
       (req.removals = 1 /\ ~req.listening)

\* The signal fired while the request was pending, and the request emitted
\* two events afterwards.
C14_Witness ==
  /\ req.abortedPending
  /\ req.events = 2
  /\ req.outcome = "aborted"
  /\ req.removals = 1

\* C27: makeRequest never holds more than MAX_BUFFER_SIZE of response body;
\* the chunk that would exceed the cap is not kept, the request is destroyed
\* and the pending call fails with the oversized-response error; from then
\* on the call never resolves and never fails with the result of a parse.
C27_ResponseSizeCap ==
  /\ req.received <= MAX_BUFFER_SIZE
  /\ req.exceeded => (req.destroyed >= 1 /\ req.outcome \notin {"pending", "resolved", "parseError"})
  /\ req.exceededPending => req.outcome = "overflow"

\* Half of the cap was received, the next chunk exceeded it and the response
\* ended afterwards.
C27_Witness ==
  /\ req.exceededPending
  /\ req.received = MAX_BUFFER_SIZE \div 2
  /\ req.outcome = "overflow"
  /\ req.ended

\* C28: when the response completes and decides the call, a status outside
\* 200..299 gives the HTTP-status error whatever the body, a 2xx status with
\* a body that is not JSON gives the parse error, and only a 2xx status with
\* a JSON body resolves; these three outcomes come from a completed response
\* only, the socket errors and the timeout give other ones.
C28_OutcomeClassification ==
  /\ req.decidedByEnd =>
       req.outcome = (IF req.statusCode \notin 200..299 THEN "statusError"
                      ELSE IF ~req.json THEN "parseError"
                      ELSE "resolved")
  /\ req.outcome \in {"statusError", "parseError", "resolved"} <=> req.decidedByEnd
  /\ req.outcome = "resolved" => (req.statusCode \in 200..299 /\ req.json /\ req.received > 0)

\* A response with status 500 and a JSON body fails with the status error.
C28_Witness ==
  /\ req.decidedByEnd
  /\ req.statusCode = 500
  /\ req.json
  /\ req.outcome = "statusError"

(***************************************************************************)
(* getPorts                                                                *)
(***************************************************************************)
\* The ports the queried process listens on.
ListeningPorts(q) ==
  {q.lines[i].port.value :
     i \in {j \in 1..Len(q.lines) : /\ q.lines[j].pid = q.pid
                                     /\ q.lines[j].port.kind = "digits"
                                     /\ q.lines[j].port.value \in MIN_PORT..MAX_PORT}}

\* C16: on every OS family the port query has an ordered list of at least
\* two utilities; it runs them in order, one after the failure of the other;
\* it returns the ports parsed from the first that succeeds and runs none
\* after it; it fails only when all have failed, and then reports the error
\* of each.
C16_OrderedFallback ==
  LET q == portQuery
      utilities == Utilities(q.platform)
  IN (q.pc \notin {"idle", "called"} /\ q.thrown # "invalidPid") =>
       /\ Len(utilities) >= 2
       /\ IsPrefix(q.tried, utilities)
       /\ q.pc = "returned" => {q.result[i] : i \in 1..Len(q.result)} = ListeningPorts(q)
       /\ q.pc = "failed" => (q.tried = utilities /\ q.reported = utilities)

\* C30: a list returned by findListeningPorts has no duplicates and holds
\* only integers in 1..65535, those of the lines of the pid; lines whose port
\* is not a number or is out of range are dropped, and the query fails only
\* for an invalid pid or because of failing utilities.
C30_UniqueValidPorts ==
  LET q == portQuery
  IN /\ q.pc = "returned" =>
          /\ \A i \in 1..Len(q.result) : q.result[i] \in 1..65535
          /\ \A i, j \in 1..Len(q.result) : q.result[i] = q.result[j] => i = j
          /\ {q.result[i] : i \in 1..Len(q.result)} = ListeningPorts(q)
     /\ q.pc = "failed" => (q.thrown = "invalidPid" \/ q.reported # <<>>)

\* Two lines with the same port, as for an IPv4 and an IPv6 socket: the
\* port is returned once.
C30_Witness ==
  /\ portQuery.pc = "returned"
  /\ Len(portQuery.lines) = 2
  /\ portQuery.lines[1] = [pid |-> portQuery.pid, port |-> Digits(8080)]
  /\ portQuery.lines[2] = portQuery.lines[1]
  /\ portQuery.result = <<8080>>

(***************************************************************************)
(* Validation of the arguments                                             *)
(***************************************************************************)
\* C26: makeRequest called with a port that is not an integer in 1..65535
\* rejects without issuing a request, and findListeningPorts called with a
\* pid that is not a positive integer up to 2^31-1 fails without running a
\* utility.
C26_ValidationPrecedesIO ==
  /\ (req.pc = "returned"
      /\ ~(req.port.kind = "integer" /\ req.port.carry = 0 /\ req.port.low \in 1..65535)) =>
       (req.outcome = "invalidPort" /\ ~req.issued /\ req.events = 0)
  /\ (portQuery.pc \notin {"idle", "called"}
      /\ ~(portQuery.pid.kind = "integer" /\ portQuery.pid.carry = 0
           /\ portQuery.pid.low \in 1..2147483647)) =>
       (portQuery.pc = "failed" /\ portQuery.thrown = "invalidPid" /\ portQuery.tried = <<>>)

\* The port 8080.5 and the pid 2^31 were both refused.
C26_Witness ==
  /\ req.port = Fraction(8080)
  /\ req.outcome = "invalidPort"
  /\ portQuery.pid = Beyond32Bits(0)
  /\ portQuery.thrown = "invalidPid"

(***************************************************************************)
(* findAntigravityProcess                                                  *)
(***************************************************************************)
\* C17: findAntigravityProcess returns a candidate with the product-name
\* marker whenever one is in the list, wherever it stands; when none is, a
\* candidate with the credential-flag marker; when neither is, it fails with
\* the process-not-found error.
C17_SelectionPreference ==
  LET list == selection.processes
      some(Marked(_)) == \E i \in 1..Len(list) : Marked(list[i])
      named(p) == p.antigravity
      flagged(p) == p.csrfToken
  IN selection.pc \in {"returned", "failed"} =>
       /\ some(named) => (selection.pc = "returned" /\ named(list[selection.chosen]))
       /\ (~some(named) /\ some(flagged)) =>
            (selection.pc = "returned" /\ flagged(list[selection.chosen]))
       /\ (~some(named) /\ ~some(flagged)) =>
            (selection.pc = "failed" /\ selection.thrown = "notfound")

(***************************************************************************)
(* Session usage                                                           *)
(***************************************************************************)
\* C19: with perWindowSession on, a decrease of the quota of a category that
\* happens between a focus-lost event and the next focus-gained event is
\* never part of the session usage reported for the category, whether the
\* refresh made on focus gain succeeds or fails: what is reported never
\* exceeds what was consumed outside such intervals.
C19_UnfocusedUseExcluded == session.reported <= session.focusedUse


(***************************************************************************)
(* Aggregation: fractions that are not finite numbers, and categories      *)
(***************************************************************************)
\* The entries of a raw model list whose fraction is absent or a finite number.
FiniteOrAbsent(model) == model.fraction.kind # "notFinite"

\* C23: a raw model entry whose fraction is present but not a finite number
\* is skipped entirely: the snapshot is the one of the list without these
\* entries (no category created, no quota or reset time changed); an entry
\* whose fraction is absent is folded in as one with the fraction 0.
C23_NonFiniteSkipped ==
  aggPc = "returned" =>
    /\ groups = Aggregate(SelectSeq(models, FiniteOrAbsent))
    /\ groups = Aggregate([i \in 1..Len(models) |->
                             IF models[i].fraction = Absent
                             THEN [models[i] EXCEPT !.fraction = Number(0)]
                             ELSE models[i]])


\* The spellings of a keyword among the words of the labels.
Spellings(keyword) == {word \in LabelWords \cup {keyword} : LowerCase(word) = keyword}
Mentions(label, keyword) == \E i \in 1..Len(label) : label[i] \in Spellings(keyword)

\* C24: whatever the case of its letters, a label containing "flash" is put
\* in the Flash category even if it also contains "gemini", otherwise a label
\* containing "gemini" in the Pro category, every other label in the
\* catch-all category; the model is folded into exactly that category and
\* the snapshot holds no other one.
C24_Categorisation ==
  aggPc = "returned" =>
    \A i \in 1..Len(models) :
      LET label == models[i].label
          category == CASE Mentions(label, "flash")  -> "Gemini 3 Flash"
                        [] Mentions(label, "gemini") -> "Gemini 3 Pro"
                        [] OTHER                     -> "Claude/GPT"
      IN /\ DetermineCategory(label) = category
         /\ {c \in DOMAIN groups : groups[c].present} = {category}
         /\ groups[category].quota = 30

\* A label with both keywords, in capitals, ends in the Flash category.
C24_Witness ==
  /\ aggPc = "returned"
  /\ models[1].label = <<"GEMINI", "FLASH">>
  /\ groups[CATEGORY_GEMINI_FLASH].present
  /\ ~groups[CATEGORY_GEMINI_PRO].present


\* C25: every group of the snapshot has a quota within [0, 1] (0 to 100
\* percent), whatever finite fractions the server returned.
C25_QuotaInRange ==
  aggPc = "returned" =>
    \A category \in Categories :
      groups[category].present =>
        (groups[category].quota >= 0 /\ groups[category].quota <= InitialQuota)


(***************************************************************************)
(* getProcesses                                                            *)
(***************************************************************************)
\* The candidates whose /proc entry is owned by the current uid and whose
\* HOME is the current home directory.
OwnProcesses(s) ==
  {i \in 1..Len(s.candidates) :
     s.candidates[i].stat = "own" /\ s.candidates[i].environ = "sameHome"}

\* C29: on Linux the process query returns a candidate only if its /proc
\* entry is owned by the current uid and its HOME equals the current home
\* directory, and returns all of these, in order; a candidate whose stat or
\* whose environ cannot be read is left out, and the query fails for no
\* candidate, only when ps fails.
C29_OwnershipFilter ==
  LET s == selection
  IN /\ (s.platform = "linux" /\ s.pc \in {"stat", "environ", "listed"}) =>
          /\ {s.validated[i] : i \in 1..Len(s.validated)} = OwnProcesses(s) \cap 1..s.checked
          /\ \A i, j \in 1..Len(s.validated) : i < j => s.validated[i] < s.validated[j]
          /\ s.pc = "listed" => s.checked = Len(s.candidates)
     /\ s.pc = "failed" => (s.thrown = "psFailed" /\ s.checked = 0)

\* Of three candidates the first cannot be read and the second belongs to
\* another user: the query returns the third.
C29_Witness ==
  /\ selection.platform = "linux"
  /\ selection.pc = "listed"
  /\ Len(selection.candidates) = 3
  /\ selection.candidates[1].stat = "error"
  /\ selection.candidates[2].stat = "other"
  /\ selection.candidates[3] = [stat |-> "own", environ |-> "sameHome"]
  /\ selection.validated = <<3>>


(***************************************************************************)
(* The polling loop                                                        *)
(***************************************************************************)
\* C33: at any time at most one chain of the polling loop is alive, awaiting
\* its refresh or waiting for its timer, and every pending timer is the one
\* held in state.refreshTimer or state.initialRefreshTimeout, which
\* clearTimers can clear.
C33_SinglePollingLoop ==
  /\ AwaitingChains + PendingChains <= 1
  /\ orphanTimers = 0

\* C34: once the state is disposed, a refresh still in flight writes neither
\* the status bar item, nor lastStatsData, nor lastRefreshSucceeded.
C34_NoWriteAfterDispose ==
  [][~isActive =>
       /\ statusText' = statusText
       /\ hasStats' = hasStats
       /\ lastRefreshSucceeded' = lastRefreshSucceeded]_vars

(***************************************************************************)
(* The cached connection                                                   *)
(***************************************************************************)
\* C35: a refresh that succeeds over the cached connection leaves
\* cachedConnection as it was, timestamp included; and the cached connection
\* is used only while it is younger than CACHE_TTL_MS, so that past this age
\* the next refresh rediscovers, however many cached fetches succeeded.
C35_CachedUseKeepsTimestamp ==
  [][\A s \in Slots :
       /\ (execs[s].pc = "cachedFetch" /\ execs'[s].pc = "idle" /\ hasStats'
           /\ lastSettled'.outcome = "success") =>
            cachedConnection' = cachedConnection
       /\ (execs[s].pc = "idle" /\ execs'[s].pc # "idle") =>
            (execs'[s].pc = "cachedFetch" <=>
               (~cachedConnection.isNull /\ now - cachedConnection.timestamp < CACHE_TTL_MS))]_vars

\* A refresh has succeeded over a connection validated half a period before.
C35_Witness ==
  /\ lastSettled.outcome = "success"
  /\ lastSettled.steps = <<"cached">>
  /\ ~cachedConnection.isNull
  /\ now = cachedConnection.timestamp + (CACHE_TTL_MS \div 2)

(***************************************************************************)
(* Classification of the probe failures                                    *)
(***************************************************************************)
\* The failures that do not last: a refused connection, a request timeout.
TransientKinds == {"refused", "timeout"}

\* C31: a transient failure of a probe is classified as retriable whatever
\* the port, so a round that contains one does not end findValidPort before
\* the MAX_PORT_VALIDATION_ATTEMPTS rounds are used.
C31_ClassifiedByKind ==
  /\ \A port \in fvp.ports :
       (fvp.probe[port] = "failed" /\ fvp.kinds[port] \in TransientKinds) =>
         ~IsNonRetriableError(fvp.errors[port])
  /\ (fvp.pc = "failed" /\ \E port \in fvp.ports : fvp.kinds[port] \in TransientKinds) =>
       fvp.attempt = MAX_PORT_VALIDATION_ATTEMPTS


(***************************************************************************)
(* createErrorTooltip                                                      *)
(***************************************************************************)
\* The display category of a failure, by its kind.
CategoryOfCause(cause) ==
  CASE cause = "processNotFound" -> "process-not-found"
    [] cause = "tokenMissing" -> "token-missing"
    [] cause = "noPorts" -> "ports-not-found"
    [] cause \in {"requestTimeout", "commandTimeout"} -> "timeout"
    [] cause = "refused" -> "connection-refused"
    [] cause = "dns" -> "dns-failure"
    [] OTHER -> "generic"

\* C32: the failure shown has the display category of its kind: process not
\* found, token missing, ports not found, timeout, connection refused, DNS
\* failure, and generic for every other message.  (A summary of two
\* different failures is of either kind.)
C32_ErrorCategories ==
  display.pc = "shown" =>
    IF display.wrapper = "portChecks"
    THEN display.tooltip \in {CategoryOfCause(display.cause), CategoryOfCause(display.second)}
    ELSE display.tooltip = CategoryOfCause(display.cause)


\* C36: a non-null cachedConnection is only ever stored in the step in which
\* findValidPort resolves in a refresh, holding a port of that refresh's
\* candidates, that refresh's csrfToken and the time of that step; and a
\* stats request is only ever issued to the cached handle while it is fresh,
\* or to the pair validated in the same refresh.
C36_CacheValidity ==
  [][/\ (cachedConnection' # cachedConnection /\ ~cachedConnection'.isNull) =>
          \E s \in Slots :
             /\ execs[s].pc = "findValidPort"
             /\ execs'[s].pc = "fetchStats"
             /\ cachedConnection'.port \in execs[s].ports
             /\ cachedConnection'.csrfToken = execs[s].csrfToken
             /\ cachedConnection'.csrfToken # Undefined
             /\ cachedConnection'.timestamp = now
     /\ \A s \in Slots :
          (~StatsInFlight(s) /\ execs'[s].pc \in {"cachedFetch", "fetchStats"}) =>
             \/ /\ execs[s].pc = "idle"
                /\ execs'[s].pc = "cachedFetch"
                /\ execs'[s].usedConn = cachedConnection
                /\ ~cachedConnection.isNull
                /\ now - cachedConnection.timestamp < CACHE_TTL_MS
             \/ /\ execs[s].pc = "findValidPort"
                /\ execs'[s].pc = "fetchStats"
                /\ execs'[s].usedConn = cachedConnection'
                /\ execs'[s].usedConn.port \in execs[s].ports
                /\ execs'[s].usedConn.csrfToken = execs[s].csrfToken
                /\ execs'[s].usedConn.timestamp = now]_vars

\* a refresh that started after time had passed has validated a port, stored
\* the handle and issued its stats request to it
C36_Witness ==
  \E s \in Slots :
     /\ execs[s].pc = "fetchStats"
     /\ ~cachedConnection.isNull
     /\ execs[s].usedConn = cachedConnection
     /\ cachedConnection.timestamp = now
     /\ now > 0


(***************************************************************************)
(* Quota notifications (platform.ts 555-592), called by applyStatsUpdate   *)
(* (706) and by the configuration listener (437-439).                      *)
(***************************************************************************)
QuotaPercents == {30, 80, 100}
Thresholds == {0, 50, 90}
\* The snapshots observed hold groups of two of the three categories.
ObservedCategories == {CATEGORY_GEMINI_PRO, CATEGORY_CLAUDE_GPT}
ObservedGroups == UNION {[present -> QuotaPercents] : present \in SUBSET ObservedCategories}

\* (mutation of FullQuotaMessages: the message is shown at every observation
\* of a full category)
FullQuotaMessagesEveryTime(notified, g) ==
  {category \in DOMAIN g : g[category] >= 100}

\* 558-566: the categories whose refill is announced.
FullQuotaMessages(notified, g) ==
  {category \in DOMAIN g : g[category] >= 100 /\ category \notin notified}

\* 558-570: fullQuotaNotifiedCategories after the loop.
FullQuotaNotified(notified, g) ==
  (notified \cup {category \in DOMAIN g : g[category] >= 100})
     \ {category \in DOMAIN g : g[category] < 100}

\* 577-585: the categories warned about.
LowQuotaMessages(notified, g, threshold) ==
  {category \in DOMAIN g : g[category] < threshold /\ category \notin notified}

\* 577-589: lowQuotaNotifiedCategories after the loop.
LowQuotaNotified(notified, g, threshold) ==
  (notified \cup {category \in DOMAIN g : g[category] < threshold})
     \ {category \in DOMAIN g : g[category] >= threshold}

\* The account of the messages of one kind, after a run that showed the
\* messages of shown and processed observations on the other side for the
\* categories of opposite.
Recorded(soFar, shown, opposite) ==
  [category \in Categories |->
     IF category \in shown
     THEN (IF soFar[category] = "never" THEN "notified" ELSE "again")
     ELSE IF category \in opposite /\ soFar[category] # "never"
     THEN "crossed"
     ELSE soFar[category]]

\* checkQuotaNotifications (555-592) on the groups g.
CheckQuotaNotifications(n, g) ==
  LET full == n.notifyOnFullQuota
      threshold == n.lowQuotaNotificationThreshold
      low == threshold > 0
      shownFull == IF full THEN FullQuotaMessages(n.fullQuotaNotifiedCategories, g) ELSE {}
      shownLow == IF low THEN LowQuotaMessages(n.lowQuotaNotifiedCategories, g, threshold)
                  ELSE {}
      belowFull == IF full THEN {category \in DOMAIN g : g[category] < 100} ELSE {}
      aboveLow == IF low THEN {category \in DOMAIN g : g[category] >= threshold} ELSE {}
  IN [n EXCEPT
        !.fullQuotaNotifiedCategories = IF full THEN FullQuotaNotified(@, g) ELSE @,
        !.lowQuotaNotifiedCategories = IF low THEN LowQuotaNotified(@, g, threshold) ELSE @,
        !.shownFull = shownFull,
        !.shownLow = shownLow,
        !.fullSoFar = Recorded(@, shownFull, belowFull),
        !.lowSoFar = Recorded(@, shownLow, aboveLow)]

exceptView == <<orchVars, portVars, csrfVars, aggVars, coreUnits>>

\* applyStatsUpdate (696-708) as far as the notifications go; its callers
\* have tested isActive.
StatsNotified(g) ==
  /\ notifications.isActive
  /\ notifications' =
       CheckQuotaNotifications([notifications EXCEPT !.lastStatsData = Stats(g)], g)
  /\ UNCHANGED <<exceptView, exceptNotifications>>

\* onDidChangeConfiguration (437-439): one of the two settings has changed.
NotificationSettingChanged(enabled, threshold) ==
  /\ notifications.isActive
  /\ <<enabled, threshold>> #
       <<notifications.notifyOnFullQuota, notifications.lowQuotaNotificationThreshold>>
  /\ LET n == [notifications EXCEPT !.notifyOnFullQuota = enabled,
                                    !.lowQuotaNotificationThreshold = threshold,
                                    !.shownFull = {},
                                    !.shownLow = {}]
     IN notifications' = IF n.lastStatsData.isNull THEN n
                         ELSE CheckQuotaNotifications(n, n.lastStatsData.groups)
  /\ UNCHANGED <<exceptView, exceptNotifications>>

\* ExtensionState.dispose (368-380)
NotificationsDisposed ==
  /\ notifications.isActive
  /\ notifications' = [notifications EXCEPT !.isActive = FALSE,
                                            !.lastStatsData = NoStats,
                                            !.fullQuotaNotifiedCategories = {},
                                            !.lowQuotaNotifiedCategories = {},
                                            !.shownFull = {},
                                            !.shownLow = {}]
  /\ UNCHANGED <<exceptView, exceptNotifications>>

NextNotifications ==
  \/ \E g \in ObservedGroups : StatsNotified(g)
  \/ \E enabled \in BOOLEAN, threshold \in Thresholds :
       NotificationSettingChanged(enabled, threshold)
  \/ NotificationsDisposed

InitNotifications ==
  /\ OrchStart
  /\ fvp = FvpIdle
  /\ CsrfIdle
  /\ AggIdle
  /\ req = ReqIdle
  /\ portQuery = PortQueryIdle
  /\ selection = SelectionIdle
  /\ session = SessionIdle
  /\ display = DisplayIdle
  /\ notifications = NotificationsIdle
  /\ history = HistoryIdle

SpecNotifications == InitNotifications /\ [][NextNotifications]_vars

\* C37: a 'refilled to 100%' message for a category is shown exactly when an
\* observation of that category at quota >= 1 is processed with
\* notifyOnFullQuota on and either no such message was shown before or an
\* observation of the category below 1 has been processed since the last
\* one; likewise a low-quota warning is shown exactly when an observation
\* below the threshold is processed and either none was shown before or an
\* observation at or above the threshold has been processed since the last.
C37_OncePerCrossing ==
  [][LET n == notifications'
         seen == IF n.lastStatsData.isNull THEN NoGroups ELSE n.lastStatsData.groups
     IN \A category \in Categories :
          /\ category \in n.shownFull <=>
               /\ n.notifyOnFullQuota
               /\ category \in DOMAIN seen
               /\ seen[category] >= 100
               /\ notifications.fullSoFar[category] \in {"never", "crossed"}
          /\ category \in n.shownLow <=>
               /\ n.lowQuotaNotificationThreshold > 0
               /\ category \in DOMAIN seen
               /\ seen[category] < n.lowQuotaNotificationThreshold
               /\ notifications.lowSoFar[category] \in {"never", "crossed"}]_vars

\* a category has been announced as refilled a second time, and one warned
\* about a second time
C37_Witness ==
  /\ \E category \in notifications.shownFull :
        notifications.fullSoFar[category] = "again"
  /\ \E category \in Categories : notifications.lowSoFar[category] = "again"


(***************************************************************************)
(* QuotaHistory (history.ts 14-111).  An entry holds its category, the     *)
(* quota before and after in per cent, the difference, the time of the     *)
(* snapshot and whether it is the first of its category; resetTime is      *)
(* copied through and left out.                                            *)
(***************************************************************************)
\* 84-93
HistoryEntry(category, isInitial, previous, quota, t) ==
  [category |-> category,
   previousQuota |-> IF isInitial THEN quota ELSE previous,
   currentQuota |-> quota,
   delta |-> IF isInitial THEN 0 ELSE quota - previous,
   timestamp |-> t,
   isInitial |-> isInitial]

\* record[key] = value
With(record, key, value) ==
  [k \in DOMAIN record \cup {key} |-> IF k = key THEN value ELSE record[k]]

\* (mutation of Prune: the oldest entries of a category are the ones kept)
PruneKeepingOldest(entries, maxHistoryItems, enableHistoryTracking) ==
  IF ~enableHistoryTracking THEN <<>>
  ELSE LET before(i) == {j \in 1..i : entries[j].category = entries[i].category}
           kept == {i \in 1..Len(entries) : Cardinality(before(i)) <= maxHistoryItems}
           nth(k) == CHOOSE i \in kept : Cardinality({j \in kept : j <= i}) = k
       IN [k \in 1..Cardinality(kept) |-> entries[nth(k)]]

\* 58-67: the loop from the last entry down to the first.
RECURSIVE PruneFrom(_, _, _, _, _)
PruneFrom(entries, i, counts, filteredEntries, maxHistoryItems) ==
  IF i = 0 THEN filteredEntries
  ELSE LET category == entries[i].category
           count == (IF category \in DOMAIN counts THEN counts[category] ELSE 0) + 1
       IN PruneFrom(entries, i - 1, With(counts, category, count),
                    IF count <= maxHistoryItems
                    THEN <<entries[i]>> \o filteredEntries
                    ELSE filteredEntries,
                    maxHistoryItems)

\* prune (48-70): the entries it leaves.
Prune(entries, maxHistoryItems, enableHistoryTracking) ==
  IF ~enableHistoryTracking THEN <<>>
  ELSE PruneFrom(entries, Len(entries), NoQuotas, <<>>, maxHistoryItems)

\* 24-29: per category the entry of the largest timestamp, the first of them.
RECURSIVE EntriesByCategory(_, _, _)
EntriesByCategory(entries, i, byCategory) ==
  IF i > Len(entries) THEN byCategory
  ELSE LET entry == entries[i]
       IN EntriesByCategory(entries, i + 1,
            IF \/ entry.category \notin DOMAIN byCategory
               \/ entry.timestamp > byCategory[entry.category].timestamp
            THEN With(byCategory, entry.category, entry)
            ELSE byCategory)

\* The quota of the last entry of each category of a list.
LastQuotas(entries) ==
  LET of(category) == {i \in 1..Len(entries) : entries[i].category = category}
      last(category) == CHOOSE i \in of(category) : \A j \in of(category) : j <= i
  IN [category \in {entries[i].category : i \in 1..Len(entries)} |->
        entries[last(category)].currentQuota]

\* new QuotaHistory(initialEntries) (18-33) under the two settings.
\* heldBefore, newEntries: the entries before the last call and the ones it
\* returned; observedBefore, observed: per category the last quota the
\* history has observed, before the last call and now.
Constructed(initialEntries, maxHistoryItems, enableHistoryTracking) ==
  LET entries == Prune(initialEntries, maxHistoryItems, enableHistoryTracking)
      byCategory == EntriesByCategory(entries, 1, NoQuotas)
  IN [pc |-> "constructed",
      entries |-> entries,
      previousQuotas |-> [category \in DOMAIN byCategory |->
                            byCategory[category].currentQuota],
      maxHistoryItems |-> maxHistoryItems,
      enableHistoryTracking |-> enableHistoryTracking,
      now |-> 0,
      snapshots |-> 0,
      heldBefore |-> initialEntries,
      newEntries |-> <<>>,
      observedBefore |-> NoQuotas,
      observed |-> IF enableHistoryTracking /\ maxHistoryItems > 0
                   THEN LastQuotas(initialEntries) ELSE NoQuotas]

\* 79-101: the loop over Object.entries(groups), a list of <<category, quota>>.
RECURSIVE RecordFrom(_, _, _, _, _, _)
RecordFrom(groupList, i, previousQuotas, newEntries, enableHistoryTracking, t) ==
  IF i > Len(groupList)
  THEN [previousQuotas |-> previousQuotas, newEntries |-> newEntries]
  ELSE LET category == groupList[i][1]
           quota == groupList[i][2]
           isInitial == category \notin DOMAIN previousQuotas
       IN IF ~isInitial /\ previousQuotas[category] = quota
          THEN RecordFrom(groupList, i + 1, previousQuotas, newEntries,
                          enableHistoryTracking, t)
          ELSE RecordFrom(groupList, i + 1, With(previousQuotas, category, quota),
                 IF enableHistoryTracking
                 THEN Append(newEntries,
                        HistoryEntry(category, isInitial,
                                     IF isInitial THEN quota ELSE previousQuotas[category],
                                     quota, t))
                 ELSE newEntries,
                 enableHistoryTracking, t)

RECURSIVE ObservedAfter(_, _, _)
ObservedAfter(observed, groupList, i) ==
  IF i > Len(groupList) THEN observed
  ELSE ObservedAfter(With(observed, groupList[i][1], groupList[i][2]), groupList, i + 1)

exceptViewHistory == <<orchVars, portVars, csrfVars, aggVars, coreUnits, exceptHistory>>

\* recordSnapshot(groups) (72-110), some time after the call before.
SnapshotRecorded(groupList) ==
  /\ history.snapshots < MaxSnapshots
  /\ LET t == history.now + 1
         r == RecordFrom(groupList, 1, history.previousQuotas, <<>>,
                         history.enableHistoryTracking, t)
     IN history' = [history EXCEPT
                      !.pc = "recorded",
                      !.now = t,
                      !.snapshots = @ + 1,
                      !.heldBefore = history.entries,
                      !.newEntries = r.newEntries,
                      !.entries = Prune(history.entries \o r.newEntries,
                                        history.maxHistoryItems,
                                        history.enableHistoryTracking),
                      !.previousQuotas = r.previousQuotas,
                      !.observedBefore = history.observed,
                      !.observed = ObservedAfter(history.observed, groupList, 1)]
  /\ UNCHANGED exceptViewHistory

\* ag-usage.enableHistoryTracking is switched (read at 51 and 74).
HistoryTrackingSwitched ==
  /\ history' = [history EXCEPT !.pc = "configured",
                                !.enableHistoryTracking = ~@]
  /\ UNCHANGED exceptViewHistory

HistoryQuotas == {30, 80}
HistoryLimits == {0, 1, 2}
\* groups of a snapshot, in the order of their creation
GroupLists ==
  {<<>>}
    \cup {<<g>> : g \in ObservedCategories \X HistoryQuotas}
    \cup {<<g, h>> : g \in {CATEGORY_GEMINI_PRO} \X HistoryQuotas,
                     h \in {CATEGORY_CLAUDE_GPT} \X HistoryQuotas}
    \cup {<<h, g>> : g \in {CATEGORY_GEMINI_PRO} \X HistoryQuotas,
                     h \in {CATEGORY_CLAUDE_GPT} \X HistoryQuotas}

\* Entries stored by earlier sessions, in the order of their recording.
StoredEntry(category, previous, quota, t) ==
  HistoryEntry(category, previous = quota, previous, quota, t)
StoredHistories ==
  LET pro == CATEGORY_GEMINI_PRO
      other == CATEGORY_CLAUDE_GPT
  IN {<<>>,
      <<StoredEntry(pro, 30, 30, -3)>>,
      <<StoredEntry(pro, 30, 30, -3), StoredEntry(pro, 30, 80, -2)>>,
      <<StoredEntry(pro, 30, 30, -3), StoredEntry(pro, 30, 80, -2),
        StoredEntry(pro, 80, 30, -1)>>,
      <<StoredEntry(pro, 30, 30, -3), StoredEntry(other, 80, 80, -3),
        StoredEntry(pro, 30, 80, -2), StoredEntry(other, 80, 30, -1)>>}

NextHistory ==
  \/ \E groupList \in GroupLists : SnapshotRecorded(groupList)
  \/ HistoryTrackingSwitched

InitHistory ==
  /\ OrchStart
  /\ fvp = FvpIdle
  /\ CsrfIdle
  /\ AggIdle
  /\ req = ReqIdle
  /\ portQuery = PortQueryIdle
  /\ selection = SelectionIdle
  /\ session = SessionIdle
  /\ display = DisplayIdle
  /\ notifications = NotificationsIdle
  /\ \E initialEntries \in StoredHistories, maxHistoryItems \in HistoryLimits,
        enableHistoryTracking \in BOOLEAN :
       history = Constructed(initialEntries, maxHistoryItems, enableHistoryTracking)

SpecHistory == InitHistory /\ [][NextHistory]_vars


\* C38: after construction and after every recordSnapshot the history holds,
\* in their original order, exactly the maxHistoryItems most recent entries
\* of each category among those held before and those just recorded (fewer
\* if there are fewer), and none when history tracking is disabled; and
\* recordSnapshot records at most one entry per category, only for a quota
\* that differs from the last quota observed for the category, and, with
\* tracking enabled, for every such quota of the snapshot.
C38_BoundedHistory ==
  LET h == history
      all == h.heldBefore \o h.newEntries
      later(i) == {j \in i..Len(all) : all[j].category = all[i].category}
      recent == {i \in 1..Len(all) : Cardinality(later(i)) <= h.maxHistoryItems}
      nth(k) == CHOOSE i \in recent : Cardinality({j \in recent : j <= i}) = k
      held(category) == {i \in 1..Len(h.entries) : h.entries[i].category = category}
      recorded(category) ==
        {k \in 1..Len(h.newEntries) : h.newEntries[k].category = category}
      differs(category) ==
        /\ category \in DOMAIN h.observed
        /\ \/ category \notin DOMAIN h.observedBefore
           \/ h.observedBefore[category] # h.observed[category]
  IN h.pc \in {"constructed", "recorded"} =>
       /\ \A category \in Categories : Cardinality(held(category)) <= h.maxHistoryItems
       /\ h.enableHistoryTracking =>
            h.entries = [k \in 1..Cardinality(recent) |-> all[nth(k)]]
       /\ ~h.enableHistoryTracking => h.entries = <<>>
       /\ h.pc = "recorded" =>
            \A category \in Categories :
               /\ Cardinality(recorded(category)) <= 1
               /\ \A k \in recorded(category) :
                    /\ differs(category)
                    /\ h.newEntries[k].currentQuota = h.observed[category]
                    /\ h.newEntries[k].timestamp = h.now
               /\ (h.enableHistoryTracking /\ differs(category)) =>
                    recorded(category) # {}

\* a snapshot has added an entry to a history that was full for its category:
\* the oldest entry of the category is gone, the others are kept
C38_Witness ==
  /\ history.pc = "recorded"
  /\ history.enableHistoryTracking
  /\ history.newEntries # <<>>
  /\ history.entries # <<>>
  /\ Len(history.entries) < Len(history.heldBefore) + Len(history.newEntries)
  /\ Len(history.entries) > Len(history.newEntries)
====
